---- MODULE Spec2Model ----
(***************************************************************************)
(* Model of the A4091 diagnostic utility (a4091.c): the card session       *)
(* (a4091_save), the IRQ 3 interrupt-server chain, the 53C710 register     *)
(* file as the program drives it, the local interrupt handler, and the     *)
(* main line (main, kill_driver, test_card, the DMA helpers) as a stack of *)
(* program positions.                                                      *)
(***************************************************************************)
EXTENDS Integers, Sequences, FiniteSets, TLC

(***************************************************************************)
(* Bounds of the model.                                                    *)
(***************************************************************************)
\* iterations of the main do/while loop that are followed under -L
MaxLoops == 2
\* transfers of the DMA-to-scratch test that are followed (512 in the source)
MaxDma == 2
\* SCSI-side interrupt causes the bus may raise during one execute_script
MaxSip == 1

(***************************************************************************)
(* Program constants.                                                      *)
(***************************************************************************)
A4091_INTPRI == 30
REG_ISTAT_DIP == 1
REG_ISTAT_SIP == 2
REG_ISTAT_RST == 64
REG_ISTAT_ABRT == 128
REG_DCNTL_COM == 1
REG_DCNTL_EA == 32
REG_DCNTL_CFD2 == 0
REG_DMODE_FC2 == 32
REG_DMODE_BLE3 == 192
REG_DSTAT_ABRT == 16
REG_CTEST4_CDIS == 128

\* BIT(x) masks are powers of two: test, set and clear one mask in a byte
HasBit(v, b) == (v \div b) % 2 = 1
SetBit(v, b) == IF HasBit(v, b) THEN v ELSE v + b
ClrBit(v, b) == IF HasBit(v, b) THEN v - b ELSE v

(***************************************************************************)
(* The interrupt servers that can be on the chain of IRQ 3.  drv1 and drv2 *)
(* are servers of the resident driver (one per card it runs), oth is a     *)
(* server of some other device, local is the utility's own server.         *)
(***************************************************************************)
NoIsr == "none"
ln_Name == [drv1 |-> "NCR SCSI", drv2 |-> "NCR SCSI", oth |-> "other",
            local |-> "A4091 test"]
ln_Pri == [drv1 |-> 20, drv2 |-> 20, oth |-> 0, local |-> A4091_INTPRI]
Servers == DOMAIN ln_Name

\* the registers of the 53C710 that the core writes
RegNames == {"ISTAT", "DCNTL", "SCID", "DWT", "DMODE", "CTEST7", "DSP"}

VARIABLES
    flags,      \* command line: kill, dma, test, loop, debug, test_flags
    save,       \* a4091_save
    atexit_fns, \* number of registrations of a4091_cleanup with atexit()
    chain,      \* SysBase->IntVects[A4091_IRQ] server list, head first
    idnest,     \* Disable() nesting count: interrupts are off while > 0
    tasks,      \* names on the TaskReady / TaskWait lists
    regs,       \* last value the register file holds for each register
    chip,       \* 53C710 status: script running, interrupt causes pending
    k,          \* main line: the positions still to run, innermost first
    loc,        \* main line locals
    hist        \* history of the run (what happened, in what order)

vars == <<flags, save, atexit_fns, chain, idnest, tasks, regs, chip, k, loc, hist>>

SeqToSet(s) == {s[i] : i \in 1..Len(s)}
InChain(s) == s \in SeqToSet(chain)

\* exec Enqueue(): behind every node of the same or a higher priority
RECURSIVE Enqueue(_, _)
Enqueue(list, s) ==
    IF list = <<>> THEN <<s>>
    ELSE IF ln_Pri[Head(list)] < ln_Pri[s] THEN <<s>> \o list
    ELSE <<Head(list)>> \o Enqueue(Tail(list), s)

\* exec Remove(): unlink the node
RECURSIVE RemoveNode(_, _)
RemoveNode(list, s) ==
    IF list = <<>> THEN <<>>
    ELSE IF Head(list) = s THEN Tail(list)
    ELSE <<Head(list)>> \o RemoveNode(Tail(list), s)

AddIntServer(list, s) == Enqueue(list, s)
RemIntServer(list, s) == RemoveNode(list, s)

(***************************************************************************)
(* Register access layer.  A read of ISTAT returns the ABRT/RST bits last  *)
(* written plus the pending bits; DSTAT and SSTAT0 are status registers    *)
(* whose read clears the cause they report.                                *)
(***************************************************************************)
DipPending == chip.sir \/ chip.abrt
IstatValue == regs["ISTAT"] + (IF DipPending THEN REG_ISTAT_DIP ELSE 0)
                            + (IF chip.sip THEN REG_ISTAT_SIP ELSE 0)
DstatValue == (IF chip.abrt THEN REG_DSTAT_ABRT ELSE 0) + (IF chip.sir THEN 4 ELSE 0)
Sstat0Value == IF chip.sip THEN 2 ELSE 0

get_ncrreg8(reg) ==
    CASE reg = "ISTAT"  -> IstatValue
      [] reg = "DSTAT"  -> DstatValue
      [] reg = "SSTAT0" -> Sstat0Value
      [] reg = "SIEN"   -> 0
      [] OTHER          -> regs[reg]

\* variant: reading DSTAT leaves the DMA-side cause pending
AfterRead_keeps_dip(c, reg) ==
    CASE reg = "SSTAT0" -> [c EXCEPT !.sip = c.stuck]
      [] OTHER          -> c

\* the chip after the read of a status register; a SCSI-side cause that the
\* bus holds (chip.stuck) is back as soon as SSTAT0 has been read
AfterRead(c, reg) ==
    CASE reg = "DSTAT"  -> [c EXCEPT !.sir = FALSE, !.abrt = FALSE]
      [] reg = "SSTAT0" -> [c EXCEPT !.sip = c.stuck]
      [] OTHER          -> c

\* the register file after a write through the shadow window
set_ncrreg8(r, reg, value) ==
    IF reg = "ISTAT"
    THEN [r EXCEPT !["ISTAT"] =
             (IF HasBit(value, REG_ISTAT_ABRT) THEN REG_ISTAT_ABRT ELSE 0)
           + (IF HasBit(value, REG_ISTAT_RST) THEN REG_ISTAT_RST ELSE 0)]
    ELSE [r EXCEPT ![reg] = value]

\* the chip after a write: RST stops it and clears the status registers,
\* ABRT asks the SCRIPTS processor to stop, DSP starts a script
AfterWrite(c, reg, value) ==
    IF reg = "ISTAT" /\ HasBit(value, REG_ISTAT_RST)
    THEN [c EXCEPT !.sir = FALSE, !.abrt = FALSE, !.sip = c.stuck,
                   !.running = FALSE, !.abrtreq = FALSE]
    ELSE IF reg = "ISTAT" /\ HasBit(value, REG_ISTAT_ABRT)
    THEN [c EXCEPT !.abrtreq = TRUE]
    ELSE IF reg = "DSP"
    THEN [c EXCEPT !.running = TRUE]
    ELSE c

\* history of a register write made by the main line
NoteWrite(h, reg) ==
    [h EXCEPT !.wroteReleased = @ \/ (save.card_owned = 0 /\ ~hist.inRelease),
              !.written = IF save.card_owned = 1 /\ ~hist.inSeize
                          THEN @ \cup {reg} ELSE @]

(***************************************************************************)
(* Initial state: main() has parsed its arguments and found the card.      *)
(***************************************************************************)
InitChains == { <<>>, <<"drv1", "oth">>, <<"drv1", "drv2">> }

NoRegs == [r \in RegNames |-> 0]

\* register contents the resident driver may have left behind
InitRegs == { NoRegs,
              [r \in RegNames |-> CASE r = "DCNTL" -> REG_DCNTL_EA
                                    [] r = "SCID"  -> 128
                                    [] r = "DWT"   -> 255
                                    [] OTHER       -> 0] }

\* the command lines that are followed; test_flags {} selects every test
CmdLine(kill, dma, test, loop, debug, mask) ==
    [kill |-> kill, dma |-> dma, test |-> test, loop |-> loop, debug |-> debug,
     test_flags |-> mask]

CommandLines == {
    CmdLine(TRUE,  FALSE, FALSE, FALSE, FALSE, {}),     \* -k
    CmdLine(FALSE, TRUE,  FALSE, FALSE, FALSE, {}),     \* -D
    CmdLine(FALSE, TRUE,  FALSE, TRUE,  TRUE,  {}),     \* -d -L -D
    CmdLine(FALSE, FALSE, TRUE,  FALSE, FALSE, {4}),    \* -t -4
    CmdLine(TRUE,  FALSE, TRUE,  FALSE, FALSE, {4}),    \* -k -t -4
    CmdLine(FALSE, FALSE, TRUE,  FALSE, FALSE, {1, 5}), \* -t -1 -5
    CmdLine(FALSE, FALSE, TRUE,  FALSE, FALSE, {6}),    \* -t -6
    CmdLine(FALSE, FALSE, TRUE,  TRUE,  FALSE, {7}),    \* -L -t -7
    CmdLine(FALSE, TRUE,  TRUE,  TRUE,  FALSE, {0})     \* -L -D -t -0
    }

Start(cmds, chains, held) ==
    /\ flags \in cmds
    /\ save = [card_owned |-> 0, cleanup_installed |-> 0, reg_istat |-> 0,
               intcount |-> 0, local_isr |-> NoIsr, driver_isr |-> NoIsr,
               ireg_istat |-> 0, ireg_sien |-> 0, ireg_sstat0 |-> 0,
               ireg_dstat |-> 0]
    /\ atexit_fns = 0
    /\ chain \in chains
    /\ idnest = 0
    /\ tasks = {"A3090 SCSI handler", "other task"}
    /\ regs \in InitRegs
    /\ \E h \in held :
          chip = [running |-> FALSE, sir |-> FALSE, abrt |-> FALSE, sip |-> h,
                  abrtreq |-> FALSE, stuck |-> h]
    /\ k = <<"main">>
    /\ loc = [walk |-> <<>>, suspended |-> 0, count |-> 0, rc |-> 0, ret |-> 0,
              trc |-> 0, ti |-> 0, pos |-> 0, loops |-> 0, exitcode |-> 0,
              script |-> 0]
    /\ hist = [inSeize |-> FALSE, inRelease |-> FALSE, everSeized |-> FALSE,
               nSeize |-> 0, nRelease |-> 0, displaced |-> {},
               atSeize |-> {},
               wroteReleased |-> FALSE, written |-> {}, preRegs |-> NoRegs,
               seizeLog |-> <<>>, relLog |-> <<>>,
               relDriver |-> NoIsr, nsip |-> 0,
               hret |-> -1, hcause |-> "none",
               late |-> FALSE, sig |-> "none", testLog |-> <<>>]

Init == Start(CommandLines, InitChains, {FALSE})

(***************************************************************************)
(* Main-line plumbing: the position at the head of k runs next.            *)
(***************************************************************************)
At(l) == k # <<>> /\ Head(k) = l
Goto(rest) == k' = rest \o Tail(k)
Alive == k # <<>> /\ Head(k) # "done"

\* one register write of the main line
WriteReg(reg, value, h) ==
    /\ regs' = set_ncrreg8(regs, reg, value)
    /\ chip' = AfterWrite(chip, reg, value)
    /\ hist' = NoteWrite(h, reg)

(***************************************************************************)
(* a4091_reset                                                             *)
(***************************************************************************)
a4091_reset_ea ==
    /\ At("reset_ea")
    /\ WriteReg("DCNTL", REG_DCNTL_EA,
                [hist EXCEPT !.relLog = IF hist.inRelease
                                        THEN Append(@, "reset") ELSE @])
    /\ Goto(<<"reset_rst">>)
    /\ UNCHANGED <<flags, save, atexit_fns, chain, idnest, tasks, loc>>

a4091_reset_rst ==
    /\ At("reset_rst")
    /\ WriteReg("ISTAT", REG_ISTAT_RST, hist)
    /\ Goto(<<"reset_clr">>)
    /\ UNCHANGED <<flags, save, atexit_fns, chain, idnest, tasks, loc>>

a4091_reset_clr ==
    /\ At("reset_clr")
    /\ WriteReg("ISTAT", 0, hist)
    /\ Goto(<<"reset_scid">>)
    /\ UNCHANGED <<flags, save, atexit_fns, chain, idnest, tasks, loc>>

a4091_reset_scid ==
    /\ At("reset_scid")
    /\ WriteReg("SCID", 128, hist)
    /\ Goto(<<"reset_clk">>)
    /\ UNCHANGED <<flags, save, atexit_fns, chain, idnest, tasks, loc>>

a4091_reset_clk ==
    /\ At("reset_clk")
    /\ WriteReg("DCNTL", REG_DCNTL_EA, hist)
    /\ Goto(<<"reset_dwt">>)
    /\ UNCHANGED <<flags, save, atexit_fns, chain, idnest, tasks, loc>>

a4091_reset_dwt ==
    /\ At("reset_dwt")
    /\ WriteReg("DWT", 255,
                [hist EXCEPT !.relLog = IF hist.inRelease
                                        THEN Append(@, "reset_end") ELSE @])
    /\ Goto(<<>>)
    /\ UNCHANGED <<flags, save, atexit_fns, chain, idnest, tasks, loc>>

(***************************************************************************)
(* a4091_abort                                                             *)
(***************************************************************************)
a4091_abort ==
    /\ At("abort_wr")
    /\ WriteReg("ISTAT", SetBit(get_ncrreg8("ISTAT"), REG_ISTAT_ABRT), hist)
    /\ Goto(<<"abort_wait">>)
    /\ UNCHANGED <<flags, save, atexit_fns, chain, idnest, tasks, loc>>

\* while ((DSTAT & ABRT) == 0) if (access_timeout(2 ticks)) break;
a4091_abort_wait ==
    /\ At("abort_wait")
    /\ chip' = AfterRead(chip, "DSTAT")
    /\ \E timeout \in BOOLEAN :
          IF HasBit(get_ncrreg8("DSTAT"), REG_DSTAT_ABRT) \/ timeout
          THEN Goto(<<>>)
          ELSE k' = k
    /\ UNCHANGED <<flags, save, atexit_fns, chain, idnest, tasks, regs, loc, hist>>

(***************************************************************************)
(* a4091_irq_handler: one entry of the local interrupt server.  It runs on *)
(* the interrupt stack, so only while interrupts are enabled and the       *)
(* server is on the chain, when the card raises the line or when another   *)
(* device that shares the line does.                                       *)
(***************************************************************************)
IrqRaised == DipPending \/ chip.sip \/ InChain("oth")

HandlerReturn(intcount) == IF intcount = 1 THEN 1 ELSE 0

\* variant: the interrupt count is bumped before ISTAT is tested
a4091_irq_handler_counts_all ==
    /\ Alive
    /\ idnest = 0
    /\ save.local_isr # NoIsr /\ InChain(save.local_isr)
    /\ IrqRaised
    /\ LET istat == get_ncrreg8("ISTAT") IN
       IF HasBit(istat, REG_ISTAT_DIP) \/ HasBit(istat, REG_ISTAT_SIP)
       THEN /\ save' = [save EXCEPT !.ireg_istat = istat,
                                    !.ireg_sien = get_ncrreg8("SIEN"),
                                    !.ireg_sstat0 = get_ncrreg8("SSTAT0"),
                                    !.ireg_dstat = get_ncrreg8("DSTAT"),
                                    !.intcount = @ + 1]
            /\ chip' = AfterRead(AfterRead(chip, "SSTAT0"), "DSTAT")
            /\ hist' = [hist EXCEPT !.hret = HandlerReturn(save.intcount + 1),
                                    !.hcause = IF chip.sir THEN "script"
                                               ELSE IF chip.abrt THEN "abort"
                                               ELSE "scsi"]
       ELSE /\ save' = [save EXCEPT !.intcount = (@ + 1) % 4]
            /\ hist' = [hist EXCEPT !.hret = 0, !.hcause = "none"]
            /\ UNCHANGED chip
    /\ UNCHANGED <<flags, atexit_fns, chain, idnest, tasks, regs, k, loc>>

a4091_irq_handler ==
    /\ Alive
    /\ idnest = 0
    /\ save.local_isr # NoIsr /\ InChain(save.local_isr)
    /\ IrqRaised
    /\ LET istat == get_ncrreg8("ISTAT") IN
       IF HasBit(istat, REG_ISTAT_DIP) \/ HasBit(istat, REG_ISTAT_SIP)
       THEN /\ save' = [save EXCEPT !.ireg_istat = istat,
                                    !.ireg_sien = get_ncrreg8("SIEN"),
                                    !.ireg_sstat0 = get_ncrreg8("SSTAT0"),
                                    !.ireg_dstat = get_ncrreg8("DSTAT"),
                                    !.intcount = @ + 1]
            /\ chip' = AfterRead(AfterRead(chip, "SSTAT0"), "DSTAT")
            /\ hist' = [hist EXCEPT !.hret = HandlerReturn(save.intcount + 1),
                                    !.hcause = IF chip.sir THEN "script"
                                               ELSE IF chip.abrt THEN "abort"
                                               ELSE "scsi"]
       ELSE /\ hist' = [hist EXCEPT !.hret = 0, !.hcause = "none"]
            /\ UNCHANGED <<save, chip>>
    /\ UNCHANGED <<flags, atexit_fns, chain, idnest, tasks, regs, k, loc>>

(***************************************************************************)
(* The 53C710 and the SCSI bus, as far as the program observes them.       *)
(***************************************************************************)
\* history: when, against the 30-tick deadline of the execute_script that is
\* waiting, the SIOP first signalled completion (DIP through SIR or ABRT)
NoteSignal(h) ==
    IF At("xs_loop") /\ h.sig = "none"
    THEN [h EXCEPT !.sig = IF h.late THEN "late" ELSE "intime"]
    ELSE h

\* the running script reaches its "interrupt and stop" instruction
SiopScriptDone ==
    /\ Alive /\ chip.running
    /\ chip' = [chip EXCEPT !.running = FALSE, !.sir = TRUE]
    /\ hist' = NoteSignal(hist)
    /\ UNCHANGED <<flags, save, atexit_fns, chain, idnest, tasks, regs, k, loc>>

\* the SCRIPTS processor acknowledges an abort request in DSTAT
SiopAbortAck ==
    /\ Alive /\ chip.abrtreq
    /\ chip' = [chip EXCEPT !.abrtreq = FALSE, !.running = FALSE, !.abrt = TRUE]
    /\ hist' = NoteSignal(hist)
    /\ UNCHANGED <<flags, save, atexit_fns, chain, idnest, tasks, regs, k, loc>>

\* a SCSI-side cause (bus reset, selection timeout ...) becomes pending;
\* followed while execute_script waits, with the local server answering
ScsiBusEvent ==
    /\ At("xs_loop") /\ hist.nsip < MaxSip /\ ~chip.sip
    /\ save.local_isr # NoIsr /\ InChain(save.local_isr)
    /\ chip' = [chip EXCEPT !.sip = TRUE]
    /\ hist' = [hist EXCEPT !.nsip = @ + 1]
    /\ UNCHANGED <<flags, save, atexit_fns, chain, idnest, tasks, regs, k, loc>>

(***************************************************************************)
(* a4091_add_local_irq_handler / a4091_remove_local_irq_handler            *)
(***************************************************************************)
a4091_add_local_irq_handler ==
    /\ At("add_local")
    /\ save' = [save EXCEPT !.intcount = 0, !.local_isr = "local"]
    /\ chain' = AddIntServer(chain, "local")
    /\ hist' = [hist EXCEPT !.seizeLog = Append(@, "local")]
    /\ Goto(<<>>)
    /\ UNCHANGED <<flags, atexit_fns, idnest, tasks, regs, chip, loc>>

a4091_remove_local_irq_handler ==
    /\ At("remove_local")
    /\ IF save.local_isr # NoIsr
       THEN /\ chain' = RemIntServer(chain, save.local_isr)
            /\ save' = [save EXCEPT !.local_isr = NoIsr]
            /\ hist' = [hist EXCEPT !.relLog = Append(@, "local")]
       ELSE UNCHANGED <<chain, save, hist>>
    /\ Goto(<<>>)
    /\ UNCHANGED <<flags, atexit_fns, idnest, tasks, regs, chip, loc>>

(***************************************************************************)
(* a4091_disable_driver_irq_handler: the walk of the server chain.         *)
(* loc.walk holds the nodes from s to the tail: a removed node keeps its   *)
(* ln_Succ, so the walk goes on from it along the list as it was.          *)
(***************************************************************************)
\* if (EMPTY(slist)) return; Disable(); s = FIRST(slist)
disable_driver_enter ==
    /\ At("dd_enter")
    /\ IF chain = <<>>
       THEN /\ Goto(<<>>)
            /\ UNCHANGED <<idnest, loc>>
       ELSE /\ idnest' = idnest + 1
            /\ loc' = [loc EXCEPT !.walk = chain, !.suspended = 0]
            /\ Goto(<<"dd_loop">>)
    /\ UNCHANGED <<flags, save, atexit_fns, chain, tasks, regs, chip, hist>>

\* the body of the loop after the debug print: strcmp and RemIntServer
WalkBody(s) ==
    IF ln_Name[s] = "NCR SCSI"
    THEN /\ loc' = [loc EXCEPT !.walk = Tail(@), !.suspended = 1]
         /\ save' = [save EXCEPT !.driver_isr = s]
         /\ chain' = RemIntServer(chain, s)
         /\ hist' = [hist EXCEPT
                !.displaced = IF hist.inSeize THEN @ \cup {s} ELSE @,
                !.seizeLog = IF hist.inSeize THEN Append(@, "driver") ELSE @]
    ELSE /\ loc' = [loc EXCEPT !.walk = Tail(@)]
         /\ UNCHANGED <<save, chain, hist>>

\* loop test; with FLAG_DEBUG the body opens with Enable(); printf(...)
disable_driver_loop ==
    /\ At("dd_loop")
    /\ IF loc.walk = <<>>
       THEN /\ idnest' = idnest - 1
            /\ Goto(<<>>)
            /\ UNCHANGED <<loc, save, chain, hist>>
       ELSE IF flags.debug
       THEN /\ idnest' = idnest - 1
            /\ Goto(<<"dd_print">>)
            /\ UNCHANGED <<loc, save, chain, hist>>
       ELSE /\ WalkBody(Head(loc.walk))
            /\ k' = k
            /\ UNCHANGED idnest
    /\ UNCHANGED <<flags, atexit_fns, tasks, regs, chip>>

\* Disable() after the debug print, then the rest of the body
disable_driver_print ==
    /\ At("dd_print")
    /\ idnest' = idnest + 1
    /\ WalkBody(Head(loc.walk))
    /\ Goto(<<"dd_loop">>)
    /\ UNCHANGED <<flags, atexit_fns, tasks, regs, chip>>

a4091_enable_driver_irq_handler ==
    /\ At("enable_driver")
    /\ IF save.driver_isr # NoIsr
       THEN /\ chain' = AddIntServer(chain, save.driver_isr)
            /\ save' = [save EXCEPT !.driver_isr = NoIsr]
            /\ hist' = [hist EXCEPT !.relLog = Append(@, "driver")]
       ELSE UNCHANGED <<chain, save, hist>>
    /\ Goto(<<>>)
    /\ UNCHANGED <<flags, atexit_fns, idnest, tasks, regs, chip, loc>>

(***************************************************************************)
(* a4091_state_takeover (seize) and a4091_state_restore (release)          *)
(***************************************************************************)
\* variant: atexit() is called on every takeover
a4091_state_takeover_reregisters ==
    /\ At("takeover")
    /\ atexit_fns' = atexit_fns + 1
    /\ IF save.card_owned = 0
       THEN /\ save' = [save EXCEPT !.cleanup_installed = 1, !.card_owned = 1]
            /\ hist' = [hist EXCEPT !.inSeize = TRUE, !.everSeized = TRUE,
                                    !.nSeize = IF @ < 2 THEN @ + 1 ELSE @,
                                    !.atSeize = {s \in SeqToSet(chain) :
                                                   ln_Name[s] = "NCR SCSI"},
                                    !.seizeLog = <<>>,
                                    !.preRegs = regs, !.written = {}]
            /\ Goto(<<"add_local", "dd_enter", "tk_save", "tk_soft",
                      "tk_unsoft", "tk_rst", "tk_wait", "tk_clr">>)
       ELSE /\ save' = [save EXCEPT !.cleanup_installed = 1]
            /\ hist' = [hist EXCEPT !.nSeize = IF @ < 2 THEN @ + 1 ELSE @]
            /\ Goto(<<>>)
    /\ UNCHANGED <<flags, chain, idnest, tasks, regs, chip, loc>>

\* variant: the driver's server is removed before the local one is installed
a4091_state_takeover_driver_first ==
    /\ At("takeover")
    /\ atexit_fns' = IF save.cleanup_installed = 0 THEN atexit_fns + 1
                     ELSE atexit_fns
    /\ IF save.card_owned = 0
       THEN /\ save' = [save EXCEPT !.cleanup_installed = 1, !.card_owned = 1]
            /\ hist' = [hist EXCEPT !.inSeize = TRUE, !.everSeized = TRUE,
                                    !.nSeize = IF @ < 2 THEN @ + 1 ELSE @,
                                    !.atSeize = {s \in SeqToSet(chain) :
                                                   ln_Name[s] = "NCR SCSI"},
                                    !.seizeLog = <<>>,
                                    !.preRegs = regs, !.written = {}]
            /\ Goto(<<"dd_enter", "add_local", "tk_save", "tk_soft",
                      "tk_unsoft", "tk_rst", "tk_wait", "tk_clr">>)
       ELSE /\ save' = [save EXCEPT !.cleanup_installed = 1]
            /\ hist' = [hist EXCEPT !.nSeize = IF @ < 2 THEN @ + 1 ELSE @]
            /\ Goto(<<>>)
    /\ UNCHANGED <<flags, chain, idnest, tasks, regs, chip, loc>>

\* variant: the seize is repeated although the card is owned
a4091_state_takeover_reseizes ==
    /\ At("takeover")
    /\ atexit_fns' = IF save.cleanup_installed = 0 THEN atexit_fns + 1
                     ELSE atexit_fns
    /\ save' = [save EXCEPT !.cleanup_installed = 1, !.card_owned = 1]
    /\ hist' = [hist EXCEPT !.inSeize = TRUE, !.everSeized = TRUE,
                            !.nSeize = IF @ < 2 THEN @ + 1 ELSE @,
                            !.atSeize = {s \in SeqToSet(chain) :
                                           ln_Name[s] = "NCR SCSI"},
                            !.seizeLog = <<>>,
                            !.preRegs = regs, !.written = {}]
    /\ Goto(<<"add_local", "dd_enter", "tk_save", "tk_soft",
              "tk_unsoft", "tk_rst", "tk_wait", "tk_clr">>)
    /\ UNCHANGED <<flags, chain, idnest, tasks, regs, chip, loc>>

a4091_state_takeover ==
    /\ At("takeover")
    /\ atexit_fns' = IF save.cleanup_installed = 0 THEN atexit_fns + 1
                     ELSE atexit_fns
    /\ IF save.card_owned = 0
       THEN /\ save' = [save EXCEPT !.cleanup_installed = 1, !.card_owned = 1]
            /\ hist' = [hist EXCEPT !.inSeize = TRUE, !.everSeized = TRUE,
                                    !.nSeize = IF @ < 2 THEN @ + 1 ELSE @,
                                    !.atSeize = {s \in SeqToSet(chain) :
                                                   ln_Name[s] = "NCR SCSI"},
                                    !.seizeLog = <<>>,
                                    !.preRegs = regs, !.written = {}]
            /\ Goto(<<"add_local", "dd_enter", "tk_save", "tk_soft",
                      "tk_unsoft", "tk_rst", "tk_wait", "tk_clr">>)
       ELSE /\ save' = [save EXCEPT !.cleanup_installed = 1]
            /\ hist' = [hist EXCEPT !.nSeize = IF @ < 2 THEN @ + 1 ELSE @]
            /\ Goto(<<>>)
    /\ UNCHANGED <<flags, chain, idnest, tasks, regs, chip, loc>>

\* a4091_save.reg_istat = get_ncrreg8(REG_ISTAT)
takeover_save_istat ==
    /\ At("tk_save")
    /\ save' = [save EXCEPT !.reg_istat = get_ncrreg8("ISTAT")]
    /\ hist' = [hist EXCEPT !.seizeLog = Append(@, "save_istat")]
    /\ Goto(<<>>)
    /\ UNCHANGED <<flags, atexit_fns, chain, idnest, tasks, regs, chip, loc>>

\* soft reset: ISTAT = reg_istat | RST, read back
takeover_soft_reset ==
    /\ At("tk_soft")
    /\ WriteReg("ISTAT", SetBit(save.reg_istat, REG_ISTAT_RST),
                [hist EXCEPT !.seizeLog = Append(@, "soft_reset")])
    /\ Goto(<<>>)
    /\ UNCHANGED <<flags, save, atexit_fns, chain, idnest, tasks, loc>>

\* ISTAT = reg_istat
takeover_soft_clear ==
    /\ At("tk_unsoft")
    /\ WriteReg("ISTAT", save.reg_istat, hist)
    /\ Goto(<<>>)
    /\ UNCHANGED <<flags, save, atexit_fns, chain, idnest, tasks, loc>>

\* Reset NCR 53C710: ISTAT = reg_istat | RST
takeover_reset ==
    /\ At("tk_rst")
    /\ WriteReg("ISTAT", SetBit(save.reg_istat, REG_ISTAT_RST), hist)
    /\ Goto(<<>>)
    /\ UNCHANGED <<flags, save, atexit_fns, chain, idnest, tasks, loc>>

\* while ((ISTAT & RST) == 0) if (access_timeout(2 ticks)) break;
takeover_wait ==
    /\ At("tk_wait")
    /\ \E timeout \in BOOLEAN :
          IF HasBit(get_ncrreg8("ISTAT"), REG_ISTAT_RST) \/ timeout
          THEN Goto(<<>>)
          ELSE k' = k
    /\ UNCHANGED <<flags, save, atexit_fns, chain, idnest, tasks, regs, chip, loc, hist>>

\* ISTAT = reg_istat & ~RST
takeover_clear ==
    /\ At("tk_clr")
    /\ WriteReg("ISTAT", ClrBit(save.reg_istat, REG_ISTAT_RST),
                [hist EXCEPT !.inSeize = FALSE, !.seizeLog = <<>>])
    /\ Goto(<<>>)
    /\ UNCHANGED <<flags, save, atexit_fns, chain, idnest, tasks, loc>>

\* variant: the card_owned test is missing
a4091_state_restore_unguarded ==
    /\ At("restore")
    /\ save' = [save EXCEPT !.card_owned = 0]
    /\ hist' = [hist EXCEPT !.inRelease = TRUE, !.relLog = <<>>,
                            !.relDriver = save.driver_isr]
    /\ Goto(<<"reset_ea", "enable_driver", "remove_local", "restore_end">>)
    /\ UNCHANGED <<flags, atexit_fns, chain, idnest, tasks, regs, chip, loc>>

\* variant: the local server is removed before the driver's is put back
a4091_state_restore_local_first ==
    /\ At("restore")
    /\ IF save.card_owned # 0
       THEN /\ save' = [save EXCEPT !.card_owned = 0]
            /\ hist' = [hist EXCEPT !.inRelease = TRUE, !.relLog = <<>>,
                                    !.relDriver = save.driver_isr]
            /\ Goto(<<"reset_ea", "remove_local", "enable_driver",
                      "restore_end">>)
       ELSE /\ Goto(<<>>)
            /\ UNCHANGED <<save, hist>>
    /\ UNCHANGED <<flags, atexit_fns, chain, idnest, tasks, regs, chip, loc>>

a4091_state_restore ==
    /\ At("restore")
    /\ IF save.card_owned # 0
       THEN /\ save' = [save EXCEPT !.card_owned = 0]
            /\ hist' = [hist EXCEPT !.inRelease = TRUE, !.relLog = <<>>,
                                    !.relDriver = save.driver_isr]
            /\ Goto(<<"reset_ea", "enable_driver", "remove_local",
                      "restore_end">>)
       ELSE /\ Goto(<<>>)
            /\ UNCHANGED <<save, hist>>
    /\ UNCHANGED <<flags, atexit_fns, chain, idnest, tasks, regs, chip, loc>>

\* the debug print that ends the owned branch of a4091_state_restore
restore_end ==
    /\ At("restore_end")
    /\ hist' = [hist EXCEPT !.inRelease = FALSE, !.relLog = <<>>,
                            !.relDriver = NoIsr,
                            !.preRegs = NoRegs, !.written = {},
                            !.nRelease = IF @ < 2 THEN @ + 1 ELSE @]
    /\ Goto(<<>>)
    /\ UNCHANGED <<flags, save, atexit_fns, chain, idnest, tasks, regs, chip, loc>>

(***************************************************************************)
(* kill_driver                                                             *)
(***************************************************************************)
kill_driver ==
    /\ At("kill_driver")
    /\ Goto(<<"reset_ea", "dd_enter", "kd_tasks">>)
    /\ UNCHANGED <<flags, save, atexit_fns, chain, idnest, tasks, regs, chip, loc, hist>>

a4091_disable_handler_process ==
    /\ At("kd_tasks")
    /\ tasks' = tasks \ {"A3090 SCSI handler"}
    /\ Goto(<<>>)
    /\ UNCHANGED <<flags, save, atexit_fns, chain, idnest, regs, chip, loc, hist>>

(***************************************************************************)
(* dma_init_siop                                                           *)
(***************************************************************************)
dma_init_siop ==
    /\ At("dma_init_siop")
    /\ Goto(<<"abort_wr", "reset_ea", "is_dcntl">>)
    /\ UNCHANGED <<flags, save, atexit_fns, chain, idnest, tasks, regs, chip, loc, hist>>

init_siop_dcntl ==
    /\ At("is_dcntl")
    /\ WriteReg("DCNTL", REG_DCNTL_CFD2 + REG_DCNTL_COM, hist)
    /\ Goto(<<"is_dmode">>)
    /\ UNCHANGED <<flags, save, atexit_fns, chain, idnest, tasks, loc>>

init_siop_dmode ==
    /\ At("is_dmode")
    /\ WriteReg("DMODE", REG_DMODE_BLE3 + REG_DMODE_FC2, hist)
    /\ Goto(<<"is_ctest7">>)
    /\ UNCHANGED <<flags, save, atexit_fns, chain, idnest, tasks, loc>>

init_siop_ctest7 ==
    /\ At("is_ctest7")
    /\ WriteReg("CTEST7", SetBit(get_ncrreg8("CTEST7"), REG_CTEST4_CDIS), hist)
    /\ Goto(<<"is_drain">>)
    /\ UNCHANGED <<flags, save, atexit_fns, chain, idnest, tasks, loc>>

\* while ((istat = ISTAT) & 3) { read SSTAT0 / DSTAT as flagged; Delay(1) }
init_siop_drain ==
    /\ At("is_drain")
    /\ LET istat == get_ncrreg8("ISTAT")
           c1 == IF HasBit(istat, REG_ISTAT_SIP) THEN AfterRead(chip, "SSTAT0")
                 ELSE chip
           c2 == IF HasBit(istat, REG_ISTAT_DIP) THEN AfterRead(c1, "DSTAT")
                 ELSE c1
       IN  IF istat % 4 = 0
           THEN Goto(<<>>) /\ UNCHANGED chip
           ELSE k' = k /\ chip' = c2
    /\ UNCHANGED <<flags, save, atexit_fns, chain, idnest, tasks, regs, loc, hist>>

(***************************************************************************)
(* dma_mem_to_mem, dma_mem_to_mem_quad, execute_script                     *)
(***************************************************************************)
\* variant: the snapshot is cleared before ownership is ensured
dma_mem_to_mem_clear_first ==
    /\ At("dmm_patch")
    /\ loc' = [loc EXCEPT !.script = 1]
    /\ Goto(<<"dmm_clear", "takeover", "xs_start">>)
    /\ UNCHANGED <<flags, save, atexit_fns, chain, idnest, tasks, regs, chip, hist>>

\* patch dma_mem_move_script, flush it, a4091_state_takeover()
dma_mem_to_mem ==
    /\ At("dmm_patch")
    /\ loc' = [loc EXCEPT !.script = 1]
    /\ Goto(<<"takeover", "dmm_clear", "xs_start">>)
    /\ UNCHANGED <<flags, save, atexit_fns, chain, idnest, tasks, regs, chip, hist>>

\* update_script (pass == 0) patches the quad script and takes over as well
dma_mem_to_mem_quad ==
    /\ At("dmq_patch")
    /\ loc' = [loc EXCEPT !.script = 2]
    /\ Goto(IF loc.pos = 0
            THEN <<"takeover", "takeover", "dmm_clear", "xs_start">>
            ELSE <<"takeover", "dmm_clear", "xs_start">>)
    /\ UNCHANGED <<flags, save, atexit_fns, chain, idnest, tasks, regs, chip, hist>>

\* variant: the whole snapshot is cleared, not only the captured ISTAT
dma_clear_istat_all ==
    /\ At("dmm_clear")
    /\ save' = [save EXCEPT !.ireg_istat = 0, !.ireg_sien = 0,
                             !.ireg_sstat0 = 0, !.ireg_dstat = 0]
    /\ Goto(<<>>)
    /\ UNCHANGED <<flags, atexit_fns, chain, idnest, tasks, regs, chip, loc, hist>>

\* a4091_save.ireg_istat = 0 (after the takeover, before execute_script)
dma_clear_istat ==
    /\ At("dmm_clear")
    /\ save' = [save EXCEPT !.ireg_istat = 0]
    /\ Goto(<<>>)
    /\ UNCHANGED <<flags, atexit_fns, chain, idnest, tasks, regs, chip, loc, hist>>

\* ireg_istat = 0; set_ncrreg32(REG_DSP, script)
\* a4091_save.ireg_istat = 0;
execute_script_start ==
    /\ At("xs_start")
    /\ save' = [save EXCEPT !.ireg_istat = 0]
    /\ Goto(<<"xs_dsp">>)
    /\ UNCHANGED <<flags, atexit_fns, chain, idnest, tasks, regs, chip, loc, hist>>

\* set_ncrreg32(REG_DSP, (uint32_t) script); tick_start = read_system_ticks();
execute_script_dsp ==
    /\ At("xs_dsp")
    /\ WriteReg("DSP", loc.script, hist)
    /\ loc' = [loc EXCEPT !.count = 0]
    /\ Goto(<<"xs_loop">>)
    /\ UNCHANGED <<flags, save, atexit_fns, chain, idnest, tasks>>

SnapshotDone == HasBit(save.ireg_istat, REG_ISTAT_ABRT)
                \/ HasBit(save.ireg_istat, REG_ISTAT_DIP)

\* the tick clock passes tick_start + 30 while execute_script waits
DeadlinePasses ==
    /\ At("xs_loop") /\ ~hist.late
    /\ hist' = [hist EXCEPT !.late = TRUE]
    /\ UNCHANGED <<flags, save, atexit_fns, chain, idnest, tasks, regs, chip, k, loc>>

\* access_timeout("SIOP timeout", 30, tick_start)
access_timeout == hist.late

\* one turn of the while (1) loop of execute_script
execute_script_loop ==
    /\ At("xs_loop")
    /\ LET istat == get_ncrreg8("ISTAT")
           polled == loc.count % 8 = 0
                     /\ (HasBit(istat, REG_ISTAT_ABRT) \/ HasBit(istat, REG_ISTAT_DIP))
           left == [hist EXCEPT !.late = FALSE, !.sig = "none", !.nsip = 0]
       IN  IF polled
           THEN /\ chip' = AfterRead(chip, "DSTAT")
                /\ loc' = [loc EXCEPT !.ret = 0, !.count = 0]
                /\ hist' = left
                /\ Goto(<<>>)
           ELSE IF SnapshotDone
           THEN /\ loc' = [loc EXCEPT !.ret = 0, !.count = 0]
                /\ hist' = left
                /\ Goto(<<>>)
                /\ UNCHANGED chip
           ELSE IF loc.count % 32 = 0 /\ access_timeout
           THEN /\ loc' = [loc EXCEPT !.ret = 1, !.count = 0]
                /\ hist' = left
                /\ Goto(<<>>)
                /\ UNCHANGED chip
           ELSE /\ loc' = [loc EXCEPT !.count = (@ + 1) % 32]
                /\ k' = k
                /\ UNCHANGED <<chip, hist>>
    /\ UNCHANGED <<flags, save, atexit_fns, chain, idnest, tasks, regs>>

(***************************************************************************)
(* test_card and the tests, each reduced to its calls into the core and    *)
(* its result.                                                             *)
(***************************************************************************)
\* variant: a mask of zero selects nothing
Selected_bits_only(i) == i \in flags.test_flags

\* test_flags == 0 means every test
Selected(i) == flags.test_flags = {} \/ i \in flags.test_flags

TestBody(i) ==
    CASE i = 0         -> <<"t_result">>
      [] i \in {1,2,3} -> <<"reset_ea", "t_result">>
      [] i = 4         -> <<"reset_ea", "tdl_loop">>
      [] i = 5         -> <<"dma_init_siop", "tdl_loop">>
      [] i = 6         -> <<"reset_ea", "reset_ea", "dma_init_siop", "tdl_loop">>
      [] OTHER         -> <<"reset_ea", "reset_ea", "t_result">>

\* one turn of the transfer loop of test_dma, test_dma_copy, test_dma_copy_perf
LoopBody(i) ==
    CASE i = 4 -> <<"dmm_patch">>
      [] i = 5 -> <<"reset_ea", "dmm_patch">>
      [] OTHER -> <<"dmq_patch">>

Exit(code) ==
    /\ k' = <<"exit">>
    /\ loc' = [loc EXCEPT !.exitcode = code]

test_card ==
    /\ At("test_card")
    /\ loc' = [loc EXCEPT !.trc = 0, !.ti = 0]
    /\ hist' = [hist EXCEPT !.testLog = <<>>]
    /\ Goto(<<"takeover", "tc_step">>)
    /\ UNCHANGED <<flags, save, atexit_fns, chain, idnest, tasks, regs, chip>>

\* variant: the result of the earlier tests is not looked at
test_card_step_ignores_rc ==
    /\ At("tc_step")
    /\ IF Selected(loc.ti)
       THEN /\ loc' = [loc EXCEPT !.pos = 0]
            /\ hist' = [hist EXCEPT !.testLog = Append(@, loc.ti)]
            /\ Goto(TestBody(loc.ti) \o <<"tc_ret">>)
       ELSE /\ Goto(<<"tc_next">>)
            /\ UNCHANGED <<loc, hist>>
    /\ UNCHANGED <<flags, save, atexit_fns, chain, idnest, tasks, regs, chip>>

\* if ((rc == 0) && (test_flags & BIT(i))) rc = test_i();
test_card_step ==
    /\ At("tc_step")
    /\ IF loc.trc = 0 /\ Selected(loc.ti)
       THEN /\ loc' = [loc EXCEPT !.pos = 0]
            /\ hist' = [hist EXCEPT !.testLog = Append(@, loc.ti)]
            /\ Goto(TestBody(loc.ti) \o <<"tc_ret">>)
       ELSE /\ Goto(<<"tc_next">>)
            /\ UNCHANGED <<loc, hist>>
    /\ UNCHANGED <<flags, save, atexit_fns, chain, idnest, tasks, regs, chip>>

test_card_ret ==
    /\ At("tc_ret")
    /\ loc' = [loc EXCEPT !.trc = loc.ret, !.pos = 0]
    /\ Goto(<<"tc_next">>)
    /\ UNCHANGED <<flags, save, atexit_fns, chain, idnest, tasks, regs, chip, hist>>

\* variant: the dispatcher returns without a4091_state_restore()
test_card_next_keeps_card ==
    /\ At("tc_next")
    /\ IF loc.ti < 7
       THEN \E brk \in BOOLEAN :
              IF brk THEN Exit(1)
              ELSE /\ loc' = [loc EXCEPT !.ti = @ + 1]
                   /\ Goto(<<"tc_step">>)
       ELSE /\ Goto(<<>>)
            /\ UNCHANGED loc
    /\ UNCHANGED <<flags, save, atexit_fns, chain, idnest, tasks, regs, chip, hist>>

\* check_break() and the next test; after the last test a4091_state_restore()
test_card_next ==
    /\ At("tc_next")
    /\ IF loc.ti < 7
       THEN \E brk \in BOOLEAN :
              IF brk THEN Exit(1)
              ELSE /\ loc' = [loc EXCEPT !.ti = @ + 1]
                   /\ Goto(<<"tc_step">>)
       ELSE /\ Goto(<<"restore">>)
            /\ UNCHANGED loc
    /\ UNCHANGED <<flags, save, atexit_fns, chain, idnest, tasks, regs, chip, hist>>

\* the compare result of a test that ran its transfers
test_result ==
    /\ At("t_result")
    /\ \E r \in {0, 1} : loc' = [loc EXCEPT !.ret = r]
    /\ Goto(<<>>)
    /\ UNCHANGED <<flags, save, atexit_fns, chain, idnest, tasks, regs, chip, hist>>

test_dma_loop ==
    /\ At("tdl_loop")
    /\ IF loc.pos < MaxDma
       THEN Goto(LoopBody(loc.ti) \o <<"tdl_check">>)
       ELSE Goto(<<"t_result">>)
    /\ UNCHANGED <<flags, save, atexit_fns, chain, idnest, tasks, regs, chip, loc, hist>>

\* if (rc != 0) goto fail_dma;
test_dma_check ==
    /\ At("tdl_check")
    /\ IF loc.ret # 0
       THEN /\ Goto(<<>>)
            /\ UNCHANGED loc
       ELSE /\ loc' = [loc EXCEPT !.pos = @ + 1]
            /\ Goto(<<"tdl_loop">>)
    /\ UNCHANGED <<flags, save, atexit_fns, chain, idnest, tasks, regs, chip, hist>>

(***************************************************************************)
(* main, from the point where the card has been found                      *)
(***************************************************************************)
main ==
    /\ At("main")
    /\ Goto(IF flags.kill THEN <<"kill_driver", "main_do">> ELSE <<"main_do">>)
    /\ UNCHANGED <<flags, save, atexit_fns, chain, idnest, tasks, regs, chip, loc, hist>>

main_do ==
    /\ At("main_do")
    /\ loc' = [loc EXCEPT !.loops = @ + 1]
    /\ Goto((IF flags.dma THEN <<"dma_init_siop", "dmm_patch", "main_dma">> ELSE <<>>)
            \o (IF flags.test THEN <<"test_card", "main_test">> ELSE <<>>)
            \o <<"main_brk", "main_while">>)
    /\ UNCHANGED <<flags, save, atexit_fns, chain, idnest, tasks, regs, chip, hist>>

main_dma ==
    /\ At("main_dma")
    /\ loc' = [loc EXCEPT !.rc = @ + loc.ret]
    /\ Goto(<<>>)
    /\ UNCHANGED <<flags, save, atexit_fns, chain, idnest, tasks, regs, chip, hist>>

main_test ==
    /\ At("main_test")
    /\ loc' = [loc EXCEPT !.rc = @ + loc.trc]
    /\ Goto(<<>>)
    /\ UNCHANGED <<flags, save, atexit_fns, chain, idnest, tasks, regs, chip, hist>>

check_break ==
    /\ At("main_brk")
    /\ \E brk \in BOOLEAN :
          IF brk THEN Exit(1)
          ELSE Goto(<<>>) /\ UNCHANGED loc
    /\ UNCHANGED <<flags, save, atexit_fns, chain, idnest, tasks, regs, chip, hist>>

\* variant: the loop test does not look at rc
main_while_ignores_rc ==
    /\ At("main_while")
    /\ IF flags.loop
       THEN /\ loc.loops < MaxLoops
            /\ Goto(<<"main_do">>)
            /\ UNCHANGED loc
       ELSE Exit(loc.rc)
    /\ UNCHANGED <<flags, save, atexit_fns, chain, idnest, tasks, regs, chip, hist>>

\* } while ((rc == 0) && flag_loop); return (rc);
main_while ==
    /\ At("main_while")
    /\ IF loc.rc = 0 /\ flags.loop
       THEN /\ loc.loops < MaxLoops
            /\ Goto(<<"main_do">>)
            /\ UNCHANGED loc
       ELSE Exit(loc.rc)
    /\ UNCHANGED <<flags, save, atexit_fns, chain, idnest, tasks, regs, chip, hist>>

\* variant: the process ends without running the registered functions
exit_skips_hooks ==
    /\ At("exit")
    /\ k' = <<"done">>
    /\ UNCHANGED <<flags, save, atexit_fns, chain, idnest, tasks, regs, chip, loc, hist>>

\* exit(): the functions registered with atexit() run, then the process ends
exit ==
    /\ At("exit")
    /\ k' = [i \in 1..atexit_fns |-> "restore"] \o <<"done">>
    /\ UNCHANGED <<flags, save, atexit_fns, chain, idnest, tasks, regs, chip, loc, hist>>

Next ==
    \/ main \/ main_do \/ main_dma \/ main_test \/ check_break \/ main_while
    \/ exit
    \/ kill_driver \/ a4091_disable_handler_process
    \/ test_card \/ test_card_step \/ test_card_ret \/ test_card_next
    \/ test_result \/ test_dma_loop \/ test_dma_check
    \/ dma_init_siop \/ init_siop_dcntl \/ init_siop_dmode \/ init_siop_ctest7
    \/ init_siop_drain
    \/ dma_mem_to_mem \/ dma_mem_to_mem_quad \/ dma_clear_istat
    \/ execute_script_start \/ execute_script_dsp \/ execute_script_loop
    \/ a4091_state_takeover \/ takeover_save_istat \/ takeover_soft_reset
    \/ takeover_soft_clear \/ takeover_reset \/ takeover_wait \/ takeover_clear
    \/ a4091_state_restore \/ restore_end
    \/ a4091_add_local_irq_handler \/ a4091_remove_local_irq_handler
    \/ disable_driver_enter \/ disable_driver_loop \/ disable_driver_print
    \/ a4091_enable_driver_irq_handler
    \/ a4091_reset_ea \/ a4091_reset_rst \/ a4091_reset_clr \/ a4091_reset_scid
    \/ a4091_reset_clk \/ a4091_reset_dwt
    \/ a4091_abort \/ a4091_abort_wait
    \/ a4091_irq_handler
    \/ SiopScriptDone \/ SiopAbortAck \/ ScsiBusEvent \/ DeadlinePasses

Spec == Init /\ [][Next]_vars

(***************************************************************************)
(* The -D run with the scheduling the waits rely on: the main line keeps   *)
(* running and the tick clock keeps advancing.  The SCSI bus may hold a    *)
(* cause asserted from the start.                                          *)
(***************************************************************************)
LiveInit ==
    Start({CmdLine(FALSE, TRUE, FALSE, FALSE, FALSE, {})}, InitChains, BOOLEAN)

LiveMainLine ==
    \/ main \/ main_do \/ main_dma \/ check_break \/ main_while \/ exit
    \/ dma_init_siop \/ init_siop_dcntl \/ init_siop_dmode \/ init_siop_ctest7
    \/ init_siop_drain
    \/ dma_mem_to_mem \/ dma_clear_istat
    \/ execute_script_start \/ execute_script_dsp \/ execute_script_loop
    \/ a4091_state_takeover \/ takeover_save_istat \/ takeover_soft_reset
    \/ takeover_soft_clear \/ takeover_reset \/ takeover_wait \/ takeover_clear
    \/ a4091_state_restore \/ restore_end
    \/ a4091_add_local_irq_handler \/ a4091_remove_local_irq_handler
    \/ disable_driver_enter \/ disable_driver_loop
    \/ a4091_enable_driver_irq_handler
    \/ a4091_reset_ea \/ a4091_reset_rst \/ a4091_reset_clr \/ a4091_reset_scid
    \/ a4091_reset_clk \/ a4091_reset_dwt
    \/ a4091_abort \/ a4091_abort_wait

LiveNext ==
    \/ LiveMainLine
    \/ a4091_irq_handler
    \/ SiopScriptDone \/ SiopAbortAck \/ ScsiBusEvent \/ DeadlinePasses

LiveSpec ==
    /\ LiveInit /\ [][LiveNext]_vars
    /\ WF_vars(LiveMainLine) /\ WF_vars(DeadlinePasses)

(***************************************************************************)
(* The dispatcher run with every test: -t alone (mask 0) and -t with the   *)
(* eight test switches -0 .. -7, on a quiet SCSI bus.                      *)
(***************************************************************************)
DispatchInit ==
    Start({CmdLine(FALSE, FALSE, TRUE, FALSE, FALSE, {}),
           CmdLine(FALSE, FALSE, TRUE, FALSE, FALSE, 0..7)},
          {<<"drv1", "drv2">>}, {FALSE})

DispatchNext ==
    \/ main \/ main_do \/ main_test \/ check_break \/ main_while \/ exit
    \/ test_card \/ test_card_step \/ test_card_ret \/ test_card_next
    \/ test_result \/ test_dma_loop \/ test_dma_check
    \/ dma_init_siop \/ init_siop_dcntl \/ init_siop_dmode \/ init_siop_ctest7
    \/ init_siop_drain
    \/ dma_mem_to_mem \/ dma_mem_to_mem_quad \/ dma_clear_istat
    \/ execute_script_start \/ execute_script_dsp \/ execute_script_loop
    \/ a4091_state_takeover \/ takeover_save_istat \/ takeover_soft_reset
    \/ takeover_soft_clear \/ takeover_reset \/ takeover_wait \/ takeover_clear
    \/ a4091_state_restore \/ restore_end
    \/ a4091_add_local_irq_handler \/ a4091_remove_local_irq_handler
    \/ disable_driver_enter \/ disable_driver_loop
    \/ a4091_enable_driver_irq_handler
    \/ a4091_reset_ea \/ a4091_reset_rst \/ a4091_reset_clr \/ a4091_reset_scid
    \/ a4091_reset_clk \/ a4091_reset_dwt
    \/ a4091_abort \/ a4091_abort_wait
    \/ a4091_irq_handler
    \/ SiopScriptDone \/ SiopAbortAck \/ DeadlinePasses

DispatchSpec == DispatchInit /\ [][DispatchNext]_vars

(***************************************************************************)
(* Properties                                                              *)
(***************************************************************************)
NcrOnChain == {s \in SeqToSet(chain) : ln_Name[s] = "NCR SCSI"}
IsPrefix(a, b) == Len(a) <= Len(b) /\ a = SubSeq(b, 1, Len(a))
Before(log, X, Y) ==
    \A i, j \in 1..Len(log) : (log[i] \in X /\ log[j] \in Y) => i < j

\* C1: a process that has called seize() ends with the card released: at
\* termination the ownership flag is clear, the local interrupt server is
\* off the IRQ chain, and every driver server that a seize() displaced is
\* back on the chain.
C1_ExitsReleased ==
    (At("done") /\ hist.everSeized) =>
        /\ save.card_owned = 0
        /\ ~InChain("local")
        /\ hist.displaced \subseteq SeqToSet(chain)

\* C2: outside seize() and release(), an owned card has the local server on
\* the chain, no server named "NCR SCSI" on it, and the handle of every
\* such server that was on the chain at seize() time held in the session.
C2_OwnedImpliesDisplaced ==
    (save.card_owned = 1 /\ ~hist.inSeize /\ ~hist.inRelease) =>
        /\ save.local_isr = "local" /\ InChain("local")
        /\ NcrOnChain = {}
        /\ hist.atSeize \subseteq {save.driver_isr}

\* C3: no SIOP register is written while the card is released: every write
\* falls between a seize() and the end of the matching release().
C3_WritesBracketed == ~hist.wroteReleased

\* C4: release() called while the card is released returns at once: it
\* writes no register, leaves the interrupt chain and the session as they
\* are, so a second release() changes nothing a first one left.
C4_ReleaseIdempotent ==
    [][ (At("restore") /\ save.card_owned = 0 /\ k' # k) =>
            /\ k' = Tail(k)
            /\ regs' = regs /\ chip' = chip /\ chain' = chain
            /\ save' = save /\ idnest' = idnest /\ atexit_fns' = atexit_fns
            /\ hist' = hist ]_vars

C4_Witness ==
    At("restore") /\ save.card_owned = 0 /\ hist.nRelease >= 1

\* C5: the cleanup-registered flag is never cleared once set, and the exit
\* action is registered exactly when it is set: once, on the first seize(),
\* however often seize() is called.
C5_CleanupOnce ==
    [][ /\ save'.cleanup_installed >= save.cleanup_installed
        /\ atexit_fns' = save'.cleanup_installed
        /\ (At("takeover") /\ k' # k => atexit_fns' = 1) ]_vars

C5_Witness ==
    hist.nRelease >= 1 /\ hist.nSeize >= 2 /\ save.card_owned = 1
    /\ ~hist.inSeize /\ atexit_fns = 1

\* C6: when release() has done its work, every register that was not
\* written between seize() and release() holds the value it had before
\* seize().
C6_SeizeReleaseSymmetry ==
    At("restore_end") =>
        \A r \in RegNames \ hist.written : regs[r] = hist.preRegs[r]

\* C7 as stated: in seize() the driver's server is removed before the local
\* server is installed, and both precede the save of ISTAT and the soft
\* reset.
C7_DriverRemovedFirst ==
    /\ Before(hist.seizeLog, {"driver"}, {"local"})
    /\ Before(hist.seizeLog, {"driver", "local"}, {"save_istat", "soft_reset"})
    /\ Before(hist.seizeLog, {"save_istat"}, {"soft_reset"})

\* C7 amended: in seize() the local server is installed before the driver's
\* server is removed, both precede the save of ISTAT, which precedes the
\* soft reset; by the end of seize() each of these steps has been taken.
C7_LocalInstalledFirst ==
    /\ Before(hist.seizeLog, {"local"}, {"driver"})
    /\ Before(hist.seizeLog, {"driver", "local"}, {"save_istat", "soft_reset"})
    /\ Before(hist.seizeLog, {"save_istat"}, {"soft_reset"})
    /\ At("tk_clr") =>
          /\ {"local", "save_istat", "soft_reset"} \subseteq SeqToSet(hist.seizeLog)
          /\ (hist.atSeize # {} => "driver" \in SeqToSet(hist.seizeLog))

C7_Witness ==
    At("tk_clr") /\ "driver" \in SeqToSet(hist.seizeLog)
    /\ "soft_reset" \in SeqToSet(hist.seizeLog)

\* C8: interrupts are disabled for the whole walk of the server chain,
\* whatever the debug flags, and Disable/Enable are balanced: outside the
\* walk the nesting count is back at zero.
InWalk == k # <<>> /\ Head(k) \in {"dd_loop", "dd_print"}
C8_WalkAtomic == IF InWalk THEN idnest > 0 ELSE idnest = 0

\* C9: release() of an owned card resets the SIOP, then puts the saved
\* driver server back (only if one was displaced), then removes the local
\* server: the driver's server is on the chain before the local one leaves.
C9_ReleaseOrder ==
    /\ \/ IsPrefix(hist.relLog, <<"reset", "reset_end", "driver", "local">>)
       \/ IsPrefix(hist.relLog, <<"reset", "reset_end", "local">>)
    /\ "driver" \in SeqToSet(hist.relLog) => hist.relDriver # NoIsr
    /\ hist.relLog = <<"reset", "reset_end", "local">> => hist.relDriver = NoIsr
    /\ (At("remove_local") /\ hist.inRelease) =>
          /\ InChain("local")
          /\ save.driver_isr = NoIsr
          /\ hist.relDriver # NoIsr => InChain(hist.relDriver)
    /\ (At("restore_end") /\ hist.inRelease) => ~InChain("local")

C9_Witness ==
    At("restore_end")
    /\ hist.relLog = <<"reset", "reset_end", "driver", "local">>

\* C10: the handler entry that observes the interrupt of a script run by
\* run_script returns "handled", for the first script after a seize() and
\* for every later one.
C10_HandledPerScript == hist.hcause = "script" => hist.hret = 1

\* a step of the interrupt handler: the main line stands still, the card and
\* the clock do nothing, and the session or the record of the handler's
\* return changes
HandlerStep ==
    /\ k' = k /\ loc' = loc
    /\ hist'.nsip = hist.nsip /\ hist'.late = hist.late /\ hist'.sig = hist.sig
    /\ (save' # save \/ hist' # hist)

Pending(istat) == HasBit(istat, REG_ISTAT_DIP) \/ HasBit(istat, REG_ISTAT_SIP)

\* C11: a handler entry that reads ISTAT with neither DIP nor SIP set leaves
\* the session unchanged and returns not handled; one that reads DIP or SIP
\* set overwrites the four snapshot bytes with the current ISTAT, SIEN,
\* SSTAT0 and DSTAT and adds exactly one to the interrupt count.
C11_HandlerFrame ==
    [][ HandlerStep =>
          IF Pending(IstatValue)
          THEN save' = [save EXCEPT !.ireg_istat = IstatValue,
                                    !.ireg_sien = 0,
                                    !.ireg_sstat0 = Sstat0Value,
                                    !.ireg_dstat = DstatValue,
                                    !.intcount = save.intcount + 1]
          ELSE save' = save /\ hist'.hret = 0 ]_vars

\* the handler has captured a script interrupt, and a later entry found
\* nothing pending
C11_Witness ==
    /\ save.intcount >= 1 /\ HasBit(save.ireg_istat, REG_ISTAT_DIP)
    /\ save.ireg_dstat # 0
    /\ hist.hret = 0 /\ hist.hcause = "none"

\* a step of the main line: its position or its locals change
MainLineStep == k' # k \/ loc' # loc

\* C12 as stated: the four snapshot bytes are written only by the interrupt
\* handler; no main-line operation stores to any of them.
C12_SnapshotHandlerOnly ==
    [][ <<save.ireg_istat, save.ireg_sien, save.ireg_sstat0, save.ireg_dstat>>'
          # <<save.ireg_istat, save.ireg_sien, save.ireg_sstat0, save.ireg_dstat>>
        => ~MainLineStep ]_vars

\* C12 amended: the captured SIEN, SSTAT0 and DSTAT are written only by the
\* interrupt handler; the captured ISTAT is written by the handler and
\* cleared to 0 by the main line in dma_mem_to_mem / dma_mem_to_mem_quad and
\* in execute_script, and by no other main-line operation.
C12_MainLineClearsIstatOnly ==
    [][ /\ (<<save.ireg_sien, save.ireg_sstat0, save.ireg_dstat>>'
              # <<save.ireg_sien, save.ireg_sstat0, save.ireg_dstat>>
            => ~MainLineStep)
        /\ (save'.ireg_istat # save.ireg_istat /\ MainLineStep
            => (At("dmm_clear") \/ At("xs_start")) /\ save'.ireg_istat = 0)
      ]_vars

\* the main line has cleared an ISTAT snapshot that the handler had captured
C12_Witness == save.ireg_istat = 0 /\ save.ireg_dstat # 0

\* C13: the interrupt count of the session is monotonic over the life of
\* the process: no step makes it smaller than it was.
C13_IntcountMonotonic == [][ save'.intcount >= save.intcount ]_vars

\* the positions of k up to and including the first one that is not a call
\* of a4091_state_takeover
RECURSIVE SkipTakeover(_)
SkipTakeover(s) ==
    IF s # <<>> /\ Head(s) = "takeover" THEN SkipTakeover(Tail(s)) ELSE s

C15_ZeroIffInTime ==
    [][ (At("xs_loop") /\ k' # k) =>
          /\ (loc'.ret = 0 <=> hist.sig = "intime")
          /\ (loc'.ret = 0 => ~(chip'.sir \/ chip'.abrt)) ]_vars

\* C16: every busy wait of the core ends, given only that the main line runs
\* and the tick clock advances: the waits of a4091_abort, of
\* a4091_state_takeover, of execute_script and the interrupt drain of
\* dma_init_siop, whatever the SIOP registers return.
C16_WaitsTerminate ==
    \A w \in {"abort_wait", "tk_wait", "xs_loop", "is_drain"} :
        [](At(w) => <>~At(w))

AllTests == <<0, 1, 2, 3, 4, 5, 6, 7>>

\* C17: a dispatch with mask 0 runs the same tests in the same order as a
\* dispatch with bits 0 through 7 set: test 0, 1, ... 7 for as long as each
\* passes, and all eight when all pass.
C17_MaskZeroMeansAll ==
    flags.test_flags \in {{}, 0..7} =>
        /\ IsPrefix(hist.testLog, AllTests)
        /\ (At("tc_step") /\ loc.trc = 0 => Len(hist.testLog) = loc.ti)
        /\ (At("main_test") /\ loc.trc = 0 => hist.testLog = AllTests)

\* a dispatch with mask 0 has returned after all eight tests passed
C17_Witness ==
    /\ At("main_test") /\ flags.test_flags = {} /\ loc.trc = 0
    /\ hist.testLog = AllTests

\* the dispatcher is between its seize() and its release(): a test is
\* running or about to be chosen
InTests ==
    /\ \E i \in 1..Len(k) : k[i] \in {"tc_step", "tc_ret", "tc_next"}
    /\ ~hist.inSeize /\ ~At("takeover")

\* C18: in one dispatch seize() has taken effect before the first test, the
\* selected tests run one at a time in ascending order with the card owned
\* throughout, check_break() is polled between consecutive tests, and
\* release() runs after the last test, so the card is released when the
\* dispatcher returns.
C18_DispatchBracket ==
    [][ /\ (InTests => save.card_owned = 1 /\ InChain("local"))
        /\ (\A i, j \in 1..Len(hist.testLog) :
               i < j => hist.testLog[i] < hist.testLog[j])
        /\ (k' # k /\ Head(k') = "tc_step"
              => \/ At("tc_next") /\ loc'.ti = loc.ti + 1
                 \/ loc.ti = 0 /\ (At("tk_clr") \/ At("takeover")))
        /\ (At("tc_step") /\ k' # k /\ Head(k') # "tc_next"
              => Len(hist'.testLog) = Len(hist.testLog) + 1
                 /\ hist'.testLog[Len(hist'.testLog)] = loc.ti)
        /\ (At("tc_next") /\ k' # k /\ Head(k') \notin {"tc_step", "exit"}
              => loc.ti = 7 /\ Head(k') = "restore" /\ k'[2] = "main_test")
        /\ (At("main_test") => save.card_owned = 0 /\ ~InChain("local"))
      ]_vars

\* the dispatcher has returned after it ran two tests
C18_Witness ==
    At("main_test") /\ Len(hist.testLog) = 2 /\ hist.nRelease >= 1

\* C19: without -L, once a test has reported non-zero the dispatcher starts
\* no further test of that dispatch and returns non-zero; a test is started
\* only while every earlier test of the dispatch returned 0.
C19_StopAtFirstFailure ==
    [][ ~flags.loop =>
          /\ (hist'.testLog # hist.testLog /\ hist'.testLog # <<>>
                => At("tc_step") /\ loc.trc = 0)
          /\ (At("tc_ret") /\ k' # k => loc'.trc = loc.ret)
          /\ ((At("tc_step") \/ At("tc_next")) /\ loc.trc # 0
                => loc'.trc = loc.trc /\ hist'.testLog = hist.testLog)
          /\ (At("main_test") /\ k' # k /\ loc.trc # 0 => loc'.rc # 0)
      ]_vars

\* test 1 failed, test 5 was selected and has not been run, and the
\* dispatcher has returned
C19_Witness ==
    /\ At("main_test") /\ ~flags.loop /\ flags.test_flags = {1, 5}
    /\ loc.trc # 0 /\ hist.testLog = <<1>>

\* C20: with -L the selected actions are repeated for as long as every
\* iteration ends with result 0, and the repetition stops at the first
\* iteration that ends non-zero or on user abort; without -L they run once.
C20_LoopUntilFailure ==
    [][ /\ (At("main_while") /\ k' # k
              => IF loc.rc = 0 /\ flags.loop
                 THEN k' = <<"main_do">>
                 ELSE k' = <<"exit">> /\ loc'.exitcode = loc.rc)
        /\ (At("main_do") /\ k' # k
              => /\ loc'.loops = loc.loops + 1
                 /\ (loc.loops > 0 => flags.loop /\ loc.rc = 0))
        /\ (At("main_brk") /\ k' # k
              => \/ k' = <<"exit">> /\ loc'.exitcode = 1
                 \/ k' = Tail(k))
        /\ (~flags.loop => loc.loops <= 1)
      ]_vars

\* a -L run repeated its actions after an iteration that ended 0 and
\* stopped after the second iteration ended non-zero
C20_Witness ==
    /\ At("exit") /\ flags.loop /\ loc.loops = 2
    /\ loc.rc # 0 /\ loc.exitcode = loc.rc

(***************************************************************************)
(* C21: when check_break() finds the user-abort signal pending, between    *)
(* two tests or at the end of a main-loop iteration, the process exits     *)
(* with code 1, the registered cleanup function runs before the process    *)
(* ends, and no further test starts once the abort has been observed.      *)
(***************************************************************************)
Exiting == k # <<>> /\ k[Len(k)] \in {"exit", "done"}

BreakPoll == At("main_brk") \/ (At("tc_next") /\ loc.ti < 7)

C21_AbortExits ==
    [][ /\ (BreakPoll /\ Exiting')
            => (k' = <<"exit">> /\ loc'.exitcode = 1)
        /\ (At("tc_next") /\ Exiting') => atexit_fns > 0
        /\ (At("exit") /\ k' # k)
            => (k' = (IF atexit_fns > 0 THEN <<"restore">> ELSE <<>>)
                     \o <<"done">>)
        /\ Exiting
            => /\ Exiting'
               /\ hist'.testLog = hist.testLog
               /\ loc'.exitcode = loc.exitcode
               /\ (At("done") => save.card_owned = 0) ]_vars

\* the abort was seen between two tests and the cleanup has released the card
C21_Witness ==
    /\ At("done")
    /\ loc.exitcode = 1
    /\ loc.rc = 0 /\ loc.trc = 0
    /\ Len(hist.testLog) = 1
    /\ hist.nRelease > 0
    /\ save.card_owned = 0

(***************************************************************************)
(* C23: the process exit code is always 0 or 1: 0 when every selected      *)
(* action succeeded, 1 on any failure, whatever value the failing action   *)
(* returned.                                                               *)
(***************************************************************************)
C23_ExitCodeBinary ==
    Exiting => loc.exitcode \in {0, 1}

(***************************************************************************)
(* C24: the evictor removes the resident driver's interrupt server and     *)
(* does not re-add it: once kill_driver() has removed it, no later         *)
(* operation of the process (a release after a later seize, the exit hook) *)
(* puts a server named "NCR SCSI" back on the chain.                       *)
(***************************************************************************)
C24_EvictedStaysOff ==
    (flags.kill /\ loc.loops > 0) => NcrOnChain = {}

(***************************************************************************)
(* The test functions on their own: get_creg, test_register_access and     *)
(* test_dma_fifo run against a card described by chip.  A 32-bit word is   *)
(* the set of its one bits, so every operation stays within 32 bits.       *)
(***************************************************************************)
NCR_FIFO_SIZE == 16
Rotations == 256
FifoSeed == 19700119
RandMul == 25173
RandAdd == 13849

Bits32 == 0..31
Word(hi16, lo16) ==
    {i \in 0..15 : HasBit(lo16, 2^i)} \cup {i + 16 : i \in {j \in 0..15 : HasBit(hi16, 2^j)}}

\* uint32_t patt = 0xf0e7c3a5
Seed == Word(61671, 50085)

\* variant: a shift that loses bit 31
Rotl1_no_wrap(w) == {i + 1 : i \in w \ {31}}

\* (patt << 1) | (patt >> 31)
Rotl1(w) == {(i + 1) % 32 : i \in w}

Nibble(w, n) ==
    (IF 4*n \in w THEN 1 ELSE 0) + (IF 4*n + 1 \in w THEN 2 ELSE 0)
    + (IF 4*n + 2 \in w THEN 4 ELSE 0) + (IF 4*n + 3 \in w THEN 8 ELSE 0)

\* printf("%08x"): the eight hexadecimal digits, most significant first
Hex8(w) == [n \in 1..8 |-> Nibble(w, 8 - n)]

\* variant: the low-nibble byte is not shifted down
get_creg_unshifted(hiByte, loByte) ==
    LET hi == 255 - hiByte
        lo == 255 - loByte
    IN  ((hi \div 16) * 16 + lo) % 256

\* uint8_t hi = ~*hiaddr; uint8_t lo = ~*loaddr; (hi & 0xf0) | (lo >> 4)
get_creg(hiByte, loByte) ==
    LET hi == 255 - hiByte
        lo == 255 - loByte
    IN  (hi \div 16) * 16 + lo \div 16

\* rand_seed = (rand_seed * 25173) + 13849 in 32 bits, as <<high 16, low 16>>
rand32(seed) ==
    LET p == seed[2] * RandMul + RandAdd
    IN  <<(seed[1] * RandMul + p \div 65536) % 65536, p % 65536>>

srand32(n) == <<n \div 65536, n % 65536>>

\* rand32() >> 8, a 24-bit value
Shr8(seed) == seed[1] * 256 + seed[2] \div 256

\* what a register of the card returns when it is read after a write
A4091_OFFSET_REGISTERS == 8388608

\* register offsets of the 53C710 as the program names them
RegOffset(reg) ==
    CASE reg = "DSTAT"   -> 15
      [] reg = "CTEST2"  -> 21
      [] reg = "CTEST1"  -> 22
      [] reg = "CTEST7"  -> 24
      [] reg = "CTEST6"  -> 25
      [] reg = "CTEST4"  -> 27
      [] reg = "TEMP"    -> 28
      [] reg = "SCRATCH" -> 52

\* the bus address of get_ncrreg8 / get_ncrreg32
get_ncrreg_addr(base, reg) == base + A4091_OFFSET_REGISTERS + RegOffset(reg)

\* variant: the write goes to the register itself, not to its shadow
set_ncrreg_addr_unshadowed(base, reg) ==
    base + A4091_OFFSET_REGISTERS + RegOffset(reg)

\* the bus address of set_ncrreg8 / set_ncrreg32 (shadow window, +0x40)
set_ncrreg_addr(base, reg) ==
    base + A4091_OFFSET_REGISTERS + 64 + RegOffset(reg)

\* the bus log after reads of the registers rd and writes of the registers wr
BusLog(bus, base, rd, wr) ==
    bus \cup {<<"r", get_ncrreg_addr(base, r)>> : r \in rd}
        \cup {<<"w", set_ncrreg_addr(base, r)>> : r \in wr}

ReadBack(fault, reg, written) ==
    IF fault.reg \in {reg, "DATA"}
    THEN IF fault.high THEN written \cup {fault.bit} ELSE written \ {fault.bit}
    ELSE written

NoFault == [reg |-> "none", bit |-> 0, high |-> FALSE]

\* the cards of the register test: sound, SCRATCH bit 5 reads 0, data line
\* D5 low for both registers, TEMP bit 9 reads 1
Faults == { NoFault,
            [reg |-> "SCRATCH", bit |-> 5, high |-> FALSE],
            [reg |-> "DATA",    bit |-> 5, high |-> FALSE],
            [reg |-> "TEMP",    bit |-> 9, high |-> TRUE] }

\* CTEST1: bits 7..4 lane empty, bits 3..0 lane full
Ctest1(fifo) ==
    LET E(l) == IF Len(fifo[l]) = 0 THEN 2^(4 + l) ELSE 0
        F(l) == IF Len(fifo[l]) = NCR_FIFO_SIZE THEN 2^l ELSE 0
    IN  E(0) + E(1) + E(2) + E(3) + F(0) + F(1) + F(2) + F(3)

\* DSTAT.DFE: the DMA FIFO is empty
Dfe(fifo) == \A l \in 0..3 : Len(fifo[l]) = 0

\* show_test_state(name, state) for state >= 0: PASS or FAIL
show_test_state(out, state) ==
    Append(out, IF state = 0 THEN "PASS" ELSE "FAIL")

\* the bit-flip loops run bit1, bit2 over DMA_LEN_BIT..31; the model stops at
\* MaxBit
MaxBit == 13
MaxTick == 3
RomDeadline == 2
CopyPasses == 32
DmaTestLen == 2048
PtrSize == 4
DMA_LEN_BIT == 12

\* AllocMem / AllocAbs returned block b
AllocMem(h, b) == [h EXCEPT !.live = @ \cup {b}]

\* variant: the block stays allocated
FreeMem_leaks(h, b) == h

\* FreeMem(b): a block that is not allocated must not be freed
FreeMem(h, b) ==
    IF b \in h.live THEN [h EXCEPT !.live = @ \ {b}]
    ELSE [h EXCEPT !.bad = TRUE]

RECURSIVE FreeAll(_, _)
FreeAll(h, bs) ==
    IF bs = <<>> THEN h ELSE FreeAll(FreeMem(h, Head(bs)), Tail(bs))

LowBits == {0, 5, 10, 15}
EmptyFifo == [l \in 0..3 |-> <<>>]
Quiet == UNCHANGED <<flags, save, atexit_fns, chain, idnest, tasks, regs>>

\* a run of one function: -t -0 stands for the autoconfig read of the
\* device-access test, -t -1 is test_register_access, -t -2 test_dma_fifo,
\* -t -4 test_dma, -t -5 test_dma_copy, -t -6 test_dma_copy_perf
\* the four registers that test_scsi_pins saves, as the SIOP holds them
PinRegs == {"DCNTL", "SCNTL0", "SCNTL1", "CTEST4"}
NoPinRegs == [r \in PinRegs |-> 0]

UnitInit ==
    /\ flags \in {CmdLine(FALSE, FALSE, TRUE, FALSE, FALSE, {m}) : m \in {0, 1, 2, 4, 5, 6, 7}}
    /\ save = [card_owned |-> 1, cleanup_installed |-> 1, reg_istat |-> 0,
               intcount |-> 0, local_isr |-> "local", driver_isr |-> NoIsr,
               ireg_istat |-> 0, ireg_sien |-> 0, ireg_sstat0 |-> 0,
               ireg_dstat |-> 0]
    /\ atexit_fns = 1
    /\ chain = <<"local">>
    /\ idnest = 0
    /\ tasks = {}
    /\ regs = NoRegs
    /\ k = IF 0 \in flags.test_flags THEN <<"test_device_access">>
           ELSE <<"unit_card">>
    /\ LET NoLat == [i \in 1..3 |-> 0]
           Card(hi, lo, f, stale, base, lat) ==
               chip = [r |-> NoPinRegs, scsi |-> "ok",
                       cfg_hi |-> hi, cfg_lo |-> lo, fault |-> f,
                       fifo |-> IF stale THEN [EmptyFifo EXCEPT ![0] = <<0>>]
                                ELSE EmptyFifo,
                       par |-> 0, popar |-> 0, base |-> base, lat |-> lat]
           Hist(v) ==
               hist = [out |-> <<>>, v |-> v, s1 |-> {}, s0 |-> {},
                       t1 |-> {}, t0 |-> {}, ws |-> {}, wt |-> {},
                       pushed |-> EmptyFifo, expected |-> EmptyFifo,
                       live |-> {}, bad |-> FALSE, forbid |-> 0,
                       failed |-> FALSE, nullWrite |-> FALSE,
                       dmaStarted |-> FALSE, bus |-> {},
                       last |-> [r \in PinRegs |-> -1],
                       socl |-> [p \in 0..1 |-> {}],
                       tsrc |-> 0, dmaSrc |-> {},
                       dst |-> {}, bf_addr |-> <<>>, lens |-> <<>>]
       IN  \E base \in {1073741824, 2130706432} :
             IF 0 \in flags.test_flags
             THEN \/ \E v \in 0..255, a \in LowBits, b \in LowBits :
                       /\ Hist(v)
                       /\ Card((15 - v \div 16) * 16 + a,
                               (15 - (v % 16)) * 16 + b,
                               NoFault, FALSE, base, NoLat)
                  \/ \E lat \in [1..3 -> 0..MaxTick] \ {NoLat} :
                       /\ Hist(0)
                       /\ Card(15 * 16, 15 * 16, NoFault, FALSE, base, lat)
             ELSE IF 7 \in flags.test_flags
             THEN \E dcntl \in {REG_DCNTL_COM, REG_DCNTL_EA}, scntl0 \in {0, 192},
                     scntl1 \in {0, 32}, ctest4 \in {0, 128},
                     bus \in {"ok", "noterm", "inreset", "noreset"} :
                       /\ Hist(0)
                       /\ chip = [r |-> [NoPinRegs EXCEPT !["DCNTL"] = dcntl,
                                          !["SCNTL0"] = scntl0,
                                          !["SCNTL1"] = scntl1,
                                          !["CTEST4"] = ctest4],
                                  scsi |-> bus,
                                  cfg_hi |-> 0, cfg_lo |-> 0, fault |-> NoFault,
                                  fifo |-> EmptyFifo, par |-> 0, popar |-> 0,
                                  base |-> base, lat |-> NoLat]
             ELSE \E f \in Faults, stale \in BOOLEAN :
                       /\ (flags.test_flags \cap {4, 5, 6} # {})
                              => (f = NoFault /\ ~stale)
                       /\ Hist(0)
                       /\ Card(0, 0, f, stale, base, NoLat)
    /\ loc = [regval |-> 0, rot |-> 0, patt |-> {}, stuck_high |-> {},
              stuck_low |-> {}, pins_diff |-> {}, rc |-> 0, ret |-> 0,
              lane |-> 0, cbyte |-> 0, seed |-> <<0, 0>>, ran |-> {},
              bit1 |-> 0, bit2 |-> 0, bf_mem |-> <<>>, bf_flags |-> <<>>,
              bf_addr_p |-> FALSE, bf_mem_p |-> FALSE, probe |-> "none",
              pass |-> 0, bit |-> -1, saved |-> NoPinRegs, cur_dma_len |-> 0]

\* uint8_t regval = get_creg(i * 4);
\* access_timeout(msg, ticks, tick_start) with the tick counter at tick_end
access_timed_out(ticks, tick_start, tick_end) ==
    IF tick_end < tick_start THEN FALSE
    ELSE tick_end - tick_start > ticks

\* the timed probes of the option ROM (retried once) and of the register
\* window; chip.lat holds the ticks that the three bus reads take
test_device_access ==
    /\ At("test_device_access")
    /\ LET tick_start == 0
           t1 == tick_start + chip.lat[1]
           t2 == t1 + chip.lat[2]
           retry == access_timed_out(RomDeadline, tick_start, t1)
           t3 == (IF retry THEN t2 ELSE t1) + chip.lat[3]
       IN  IF retry /\ access_timed_out(RomDeadline, tick_start, t2)
           THEN /\ loc' = [loc EXCEPT !.probe = "rom", !.rc = 1, !.ret = 1,
                                      !.ran = @ \cup {0}]
                /\ hist' = [hist EXCEPT !.out =
                               show_test_state(<<"Device access:">>, 1)]
                /\ Goto(<<>>)
           ELSE IF access_timed_out(RomDeadline, tick_start, t3)
           THEN /\ loc' = [loc EXCEPT !.probe = "window", !.rc = 1, !.ret = 1,
                                      !.ran = @ \cup {0}]
                /\ hist' = [hist EXCEPT !.out =
                               show_test_state(<<"Device access:">>, 1)]
                /\ Goto(<<>>)
           ELSE /\ loc' = [loc EXCEPT !.probe = "ok", !.rc = 0]
                /\ hist' = [hist EXCEPT !.out = <<"Device access:">>]
                /\ Goto(<<"get_creg">>)
    /\ UNCHANGED chip
    /\ Quiet

\* one read of the autoconfig header (register 0, expected 0x6f) and the
\* state line of the test
get_creg_read ==
    /\ At("get_creg")
    /\ LET regval == get_creg(chip.cfg_hi, chip.cfg_lo)
           rc     == IF regval = 111 THEN 0 ELSE 1
       IN  /\ loc' = [loc EXCEPT !.regval = regval, !.rc = rc, !.ret = rc,
                                  !.ran = @ \cup {0}]
           /\ hist' = [hist EXCEPT !.out = show_test_state(@, rc)]
    /\ Goto(<<>>)
    /\ UNCHANGED chip
    /\ Quiet

\* test_card for a mask of one bit: bit 1 is test_register_access, bit 2
\* test_dma_fifo, bit 4 test_dma, bit 5 test_dma_copy, bit 6
\* test_dma_copy_perf
unit_card ==
    /\ At("unit_card")
    /\ Goto((IF Selected(1) THEN <<"test_register_access">> ELSE <<>>)
            \o (IF Selected(2) THEN <<"test_dma_fifo">> ELSE <<>>)
            \o (IF Selected(4) THEN <<"test_dma">> ELSE <<>>)
            \o (IF Selected(5) THEN <<"test_dma_copy">> ELSE <<>>)
            \o (IF Selected(6) THEN <<"test_dma_copy_perf">> ELSE <<>>)
            \o (IF Selected(7) THEN <<"test_scsi_pins">> ELSE <<>>))
    /\ UNCHANGED <<chip, loc, hist>>
    /\ Quiet

\* the reserved bits and the cleared status registers read as expected on
\* these cards; the walk starts from patt = 0xf0e7c3a5
test_register_access ==
    /\ At("test_register_access")
    /\ hist' = [hist EXCEPT !.out = Append(@, "Register test:")]
    /\ loc' = [loc EXCEPT !.rc = 0, !.rot = 0, !.patt = Seed,
                           !.stuck_high = Bits32, !.stuck_low = Bits32,
                           !.pins_diff = {}, !.ran = @ \cup {1}]
    /\ Goto(<<"reg_walk">>)
    /\ UNCHANGED chip
    /\ Quiet

\* one rotation of the walking-bits loop, and what follows the loop
reg_walk ==
    /\ At("reg_walk")
    /\ IF loc.rot < Rotations
       THEN LET next        == Rotl1(loc.patt)
                got_scratch == ReadBack(chip.fault, "SCRATCH", loc.patt)
                got_temp    == ReadBack(chip.fault, "TEMP", next)
                diff_s      == (got_scratch \ loc.patt) \cup (loc.patt \ got_scratch)
                diff_t      == (got_temp \ next) \cup (next \ got_temp)
            IN  /\ loc' = [loc EXCEPT
                      !.stuck_high = @ \cap (got_scratch \cap got_temp),
                      !.stuck_low  = @ \cap (Bits32 \ (got_scratch \cup got_temp)),
                      !.pins_diff  = @ \cup diff_s \cup diff_t,
                      !.rc = @ + (IF diff_s # {} THEN 1 ELSE 0)
                               + (IF diff_t # {} THEN 1 ELSE 0),
                      !.rot = @ + 1, !.patt = next]
                /\ hist' = [hist EXCEPT
                      !.s1 = @ \cup loc.patt, !.s0 = @ \cup (Bits32 \ loc.patt),
                      !.t1 = @ \cup next, !.t0 = @ \cup (Bits32 \ next),
                      !.ws = loc.patt, !.wt = next,
                      !.bus = BusLog(@, chip.base, {"SCRATCH", "TEMP"},
                                     {"SCRATCH", "TEMP"})]
                /\ UNCHANGED k
       ELSE LET pins == loc.pins_diff \ (loc.stuck_high \cup loc.stuck_low)
                o1 == IF loc.stuck_high # {}
                      THEN Append(hist.out, <<"Stuck high:", Hex8(loc.stuck_high)>>)
                      ELSE hist.out
                o2 == IF loc.stuck_low # {}
                      THEN Append(o1, <<"Stuck low:", Hex8(loc.stuck_low)>>)
                      ELSE o1
                o3 == IF pins # {}
                      THEN Append(o2, <<"Floating or bridged:", Hex8(pins)>>)
                      ELSE o2
            IN  /\ loc' = [loc EXCEPT !.pins_diff = pins, !.ret = loc.rc]
                /\ hist' = [hist EXCEPT !.out = show_test_state(o3, loc.rc)]
                /\ Goto(<<>>)
    /\ UNCHANGED chip
    /\ Quiet

\* variant: the parity bit is not stored with the byte
FifoPush_no_parity(fifo, lane, par, byte) ==
    [fifo EXCEPT ![lane] = IF Len(@) < NCR_FIFO_SIZE THEN Append(@, byte) ELSE @]

\* set_ncrreg8(REG_CTEST6, byte) with CTEST7 bit 3 = par, lane chosen by CTEST4
FifoPush(fifo, lane, par, byte) ==
    [fifo EXCEPT ![lane] = IF Len(@) < NCR_FIFO_SIZE
                           THEN Append(@, byte + 256 * par) ELSE @]

\* the entry checks of test_dma_fifo (FLAG_MORE_DEBUG is not set)
test_dma_fifo ==
    /\ At("test_dma_fifo")
    /\ hist' = [hist EXCEPT !.out = Append(@, "DMA FIFO test:"),
                            !.bus = BusLog(@, chip.base,
                                      IF Ctest1(chip.fifo) # 240 THEN {"CTEST1"}
                                      ELSE IF ~Dfe(chip.fifo) THEN {"CTEST1", "DSTAT"}
                                      ELSE {"CTEST1", "DSTAT", "CTEST4", "CTEST7"},
                                      {})]
    /\ IF Ctest1(chip.fifo) # 240 \/ ~Dfe(chip.fifo)
       THEN /\ loc' = [loc EXCEPT !.ret = 15, !.ran = @ \cup {2}]
            /\ Goto(<<>>)
       ELSE /\ loc' = [loc EXCEPT !.rc = 0, !.lane = 0, !.cbyte = 0,
                                  !.seed = srand32(FifoSeed),
                                  !.ran = @ \cup {2}]
            /\ Goto(<<"fifo_push">>)
    /\ UNCHANGED chip
    /\ Quiet

\* one byte pushed with its parity; after the last lane the full checks
fifo_push ==
    /\ At("fifo_push")
    /\ IF loc.lane < 4
       THEN LET seed   == rand32(loc.seed)
                rvalue == Shr8(seed) % 65536
                par    == (rvalue \div 256) % 2
                last   == loc.cbyte = NCR_FIFO_SIZE - 1
            IN  /\ chip' = [chip EXCEPT !.par = par,
                              !.fifo = FifoPush(@, loc.lane, par, rvalue % 256)]
                /\ loc' = [loc EXCEPT !.seed = seed,
                              !.cbyte = IF last THEN 0 ELSE @ + 1,
                              !.lane = IF last THEN @ + 1 ELSE @]
                /\ hist' = [hist EXCEPT !.pushed[loc.lane] =
                                           Append(@, (rvalue % 256) + 256 * par),
                                        !.bus = BusLog(@, chip.base, {},
                                                  {"CTEST4", "CTEST7", "CTEST6"})]
                /\ UNCHANGED k
       ELSE /\ IF Dfe(chip.fifo)
               THEN /\ loc' = [loc EXCEPT !.ret = 15]
                    /\ Goto(<<>>)
               ELSE IF Ctest1(chip.fifo) # 15
               THEN /\ loc' = [loc EXCEPT !.rc = 255]
                    /\ Goto(<<"fifo_fail">>)
               ELSE /\ loc' = [loc EXCEPT !.lane = 0, !.cbyte = 0,
                                          !.seed = srand32(FifoSeed)]
                    /\ Goto(<<"fifo_pop">>)
            /\ hist' = [hist EXCEPT !.bus = BusLog(@, chip.base,
                                              IF Dfe(chip.fifo) THEN {"DSTAT"}
                                              ELSE {"DSTAT", "CTEST1"}, {})]
            /\ UNCHANGED chip
    /\ Quiet

\* one byte popped and compared; after the last lane the empty check
fifo_pop ==
    /\ At("fifo_pop")
    /\ IF loc.lane < 4
       THEN LET seed   == rand32(loc.seed)
                rvalue == Shr8(seed) % 512
                q      == chip.fifo[loc.lane]
                entry  == IF q = <<>> THEN 0 ELSE Head(q)
                popar  == entry \div 256
                value  == (entry % 256) + 256 * popar
                last   == loc.cbyte = NCR_FIFO_SIZE - 1
            IN  /\ chip' = [chip EXCEPT !.popar = popar,
                              !.fifo[loc.lane] = IF q = <<>> THEN q ELSE Tail(q)]
                /\ loc' = [loc EXCEPT !.seed = seed,
                              !.rc = IF value # rvalue
                                     THEN SetBit(@, 2^loc.lane) ELSE @,
                              !.cbyte = IF last THEN 0 ELSE @ + 1,
                              !.lane = IF last THEN @ + 1 ELSE @]
                /\ hist' = [hist EXCEPT !.expected[loc.lane] = Append(@, rvalue),
                                        !.bus = BusLog(@, chip.base,
                                                  {"CTEST6", "CTEST2"}, {"CTEST4"})]
                /\ UNCHANGED k
       ELSE /\ loc' = [loc EXCEPT !.rc = IF Ctest1(chip.fifo) # 240
                                         THEN 255 ELSE @]
            /\ Goto(<<"fifo_fail">>)
            /\ hist' = [hist EXCEPT !.bus = BusLog(@, chip.base, {"CTEST1"}, {})]
            /\ UNCHANGED chip
    /\ Quiet

\* fail: show_test_state("DMA FIFO test:", rc); return (rc);
fifo_fail ==
    /\ At("fifo_fail")
    /\ hist' = [hist EXCEPT !.out = show_test_state(@, loc.rc)]
    /\ loc' = [loc EXCEPT !.ret = loc.rc]
    /\ Goto(<<>>)
    /\ UNCHANGED chip
    /\ Quiet

\* the buffers of the DMA tests; a bit-flip buffer is named by its pair
B(name) ==
    <<0, CASE name = "src" -> 0 [] name = "dst_buf" -> 1 [] name = "bf_addr" -> 2
           [] name = "bf_mem" -> 3 [] name = "tsrc" -> 4 [] OTHER -> 5>>

\* for (bit1 = DMA_LEN_BIT; ...) for (bit2 = bit1; ...): the pairs in loop order
RECURSIVE BfSeq(_, _)
BfSeq(bit1, bit2) ==
    IF bit1 > MaxBit THEN <<>>
    ELSE <<<<bit1, bit2>>>>
         \o (IF bit2 = MaxBit THEN BfSeq(bit1 + 1, bit1 + 1)
                               ELSE BfSeq(bit1, bit2 + 1))

BfPairs == SeqToSet(BfSeq(DMA_LEN_BIT, DMA_LEN_BIT))

\* test_dma: one buffer, the transfers to SCRATCH, the buffer freed
\* p + n for a pointer p to elements of the given size
PtrAdd(p, n, size) == p + n * size

\* AllocMem_aligned(dma_len * 3, dma_len), src = tsrc + dma_len with
\* APTR *tsrc, then the transfers to SCRATCH from src + pos
test_dma ==
    /\ At("test_dma")
    /\ \E r \in {"nomem", "timeout", "mismatch", "ok"},
          tsrc \in {16 * DmaTestLen, 17 * DmaTestLen} :
         LET rc == IF r = "ok" THEN 0 ELSE 1
             src == PtrAdd(tsrc, DmaTestLen, PtrSize)
             h1 == [hist EXCEPT !.out = Append(@, "DMA test:")]
             h2 == IF r = "nomem"
                   THEN [h1 EXCEPT !.failed = TRUE]
                   ELSE FreeMem([AllocMem(h1, B("tsrc")) EXCEPT
                                    !.dmaStarted = TRUE, !.tsrc = tsrc,
                                    !.dmaSrc = IF r = "ok"
                                               THEN {src + 4 * i :
                                                       i \in 0..(DmaTestLen \div 4 - 1)}
                                               ELSE {src}],
                                B("tsrc"))
         IN  /\ hist' = [h2 EXCEPT !.out = show_test_state(@, rc)]
             /\ loc' = [loc EXCEPT !.rc = rc, !.ret = rc, !.ran = @ \cup {4}]
    /\ Goto(<<>>)
    /\ UNCHANGED chip
    /\ Quiet

\* test_dma_copy_perf: two buffers, the timed copies, both buffers freed;
\* the state line is printed only when rc != 0
test_dma_copy_perf ==
    /\ At("test_dma_copy_perf")
    /\ \E r \in {"nosrc", "nodst", "timeout", "ok"} :
         LET rc == IF r = "ok" THEN 0 ELSE 1
             h1 == [hist EXCEPT !.out = Append(@, "DMA copy perf:")]
             h2 == CASE r = "nosrc" -> [h1 EXCEPT !.failed = TRUE]
                     [] r = "nodst" ->
                          FreeMem([AllocMem(h1, B("src")) EXCEPT !.failed = TRUE],
                                  B("src"))
                     [] OTHER ->
                          FreeAll([AllocMem(AllocMem(h1, B("src")), B("dst"))
                                     EXCEPT !.dmaStarted = TRUE],
                                  <<B("dst"), B("src")>>)
         IN  /\ hist' = IF rc # 0
                        THEN [h2 EXCEPT !.out = show_test_state(@, rc)]
                        ELSE h2
             /\ loc' = [loc EXCEPT !.rc = rc, !.ret = rc, !.ran = @ \cup {6}]
    /\ Goto(<<>>)
    /\ UNCHANGED chip
    /\ Quiet

\* test_dma_copy up to the protection arrays
\* w ^ BIT(b) on a word held as the set of its one-bits
Xor(w, b) == IF b \in w THEN w \ {b} ELSE w \cup {b}

\* variant: both bits are flipped on the diagonal as well
BfAddr_flips_twice(dst, bit1, bit2) == Xor(Xor(dst, bit1), bit2)

\* the address stored in bf_addr[bit1][bit2]
BfAddr(dst, bit1, bit2) ==
    IF bit1 = bit2 THEN Xor(dst, bit1) ELSE Xor(Xor(dst, bit1), bit2)

test_dma_copy ==
    /\ At("test_dma_copy")
    /\ \E r \in {"nosrc", "nodst", "nobfaddr", "nobfmem", "ok"},
          dst \in {{4, 12, 20}, {5, 13, 31}} :
         LET h1 == [hist EXCEPT !.out = Append(@, "DMA copy:"),
                                !.failed = r # "ok",
                                !.dst = IF r = "ok" THEN dst ELSE {4, 12, 20}]
             got == CASE r = "nosrc"    -> <<>>
                      [] r = "nodst"    -> <<B("src")>>
                      [] r = "nobfaddr" -> <<B("src"), B("dst_buf"), B("bf_mem")>>
                      [] r = "nobfmem"  -> <<B("src"), B("dst_buf"), B("bf_addr")>>
                      [] OTHER -> <<B("src"), B("dst_buf"), B("bf_addr"),
                                  B("bf_mem")>>
         IN  /\ hist' = [h1 EXCEPT !.live = @ \cup SeqToSet(got)]
             /\ loc' = [loc EXCEPT !.rc = IF r = "ok" THEN 0 ELSE 1,
                           !.ran = @ \cup {5},
                           !.bf_addr_p = r \in {"nobfmem", "ok"},
                           !.bf_mem_p = r \in {"nobfaddr", "ok"},
                           !.bit1 = DMA_LEN_BIT, !.bit2 = DMA_LEN_BIT,
                           !.pass = 0, !.cur_dma_len = 4,
                           !.bf_mem = [p \in BfPairs |-> "zero"],
                           !.bf_flags = [p \in BfPairs |-> FALSE]]
             /\ Goto(CASE r = "nosrc" -> <<"fail_src_alloc">>
                       [] r = "nodst" -> <<"fail_dst_alloc">>
                       [] r \in {"nobfaddr", "nobfmem"} -> <<"fail_bfaddr_alloc">>
                       [] OTHER -> <<"copy_reserve">>)
    /\ UNCHANGED chip
    /\ Quiet

\* one entry of the bit-flip table: AllocAbs at the flipped address, and
\* AllocMem of a copy buffer when that address cannot be reserved
copy_reserve ==
    /\ At("copy_reserve")
    /\ IF loc.bit1 <= MaxBit
       THEN \E r \in {"abs", "copy", "null"} :
              LET p == <<loc.bit1, loc.bit2>>
              IN  /\ loc' = [loc EXCEPT
                        !.bf_mem[p] = IF r = "null" THEN "zero" ELSE "block",
                        !.bf_flags[p] = r # "abs",
                        !.bit2 = IF loc.bit2 = MaxBit THEN loc.bit1 + 1 ELSE @ + 1,
                        !.bit1 = IF loc.bit2 = MaxBit THEN @ + 1 ELSE @]
                  /\ hist' = LET h0 == [hist EXCEPT !.bf_addr =
                                           (p :> BfAddr(hist.dst, p[1], p[2])) @@ @]
                             IN  IF r = "null"
                                 THEN [h0 EXCEPT !.failed = TRUE]
                                 ELSE AllocMem(h0, p)
                  /\ UNCHANGED k
       ELSE /\ Goto(<<"copy_forbid">>)
            /\ UNCHANGED <<loc, hist>>
    /\ UNCHANGED chip
    /\ Quiet

\* dma_init_siop(); Forbid(); memcpy into every entry flagged BF_FLAG_COPY
copy_forbid ==
    /\ At("copy_forbid")
    /\ hist' = [hist EXCEPT
          !.forbid = @ + 1,
          !.nullWrite = \E p \in BfPairs :
                           loc.bf_flags[p] /\ loc.bf_mem[p] = "zero"]
    /\ Goto(<<"copy_pass">>)
    /\ UNCHANGED <<chip, loc>>
    /\ Quiet

\* the passes of the copy loop, left on a DMA failure or a miscompare, and
\* Permit() after the loop
\* variant: the length keeps doubling
NextLen_uncapped(cur_dma_len, dma_len) == 2 * cur_dma_len

\* cur_dma_len <<= 1; if (cur_dma_len >= dma_len) cur_dma_len = dma_len;
NextLen(cur_dma_len, dma_len) ==
    IF 2 * cur_dma_len >= dma_len THEN dma_len ELSE 2 * cur_dma_len

\* one pass of the copy loop: the DMA of cur_dma_len bytes and the compare;
\* Permit() follows the loop
copy_pass ==
    /\ At("copy_pass")
    /\ IF loc.pass < CopyPasses
       THEN \E r \in {"timeout", "mismatch", "ok"} :
              LET h1 == [hist EXCEPT !.dmaStarted = TRUE,
                                     !.lens = Append(@, loc.cur_dma_len)]
              IN  IF r = "ok"
                  THEN /\ loc' = [loc EXCEPT !.rc = 0, !.pass = @ + 1,
                                     !.cur_dma_len = NextLen(@, 2^DMA_LEN_BIT)]
                       /\ hist' = h1
                       /\ UNCHANGED k
                  ELSE /\ loc' = [loc EXCEPT !.rc = 1]
                       /\ hist' = [h1 EXCEPT !.forbid = @ - 1]
                       /\ Goto(<<"copy_free">>)
       ELSE /\ hist' = [hist EXCEPT !.forbid = @ - 1]
            /\ Goto(<<"copy_free">>)
            /\ UNCHANGED loc
    /\ UNCHANGED chip
    /\ Quiet

\* Deallocate protected memory: every entry of bf_mem that is not 0
copy_free ==
    /\ At("copy_free")
    /\ hist' = FreeAll(hist, SelectSeq(BfSeq(DMA_LEN_BIT, DMA_LEN_BIT),
                                       LAMBDA p : loc.bf_mem[p] # "zero"))
    /\ Goto(<<"fail_bfaddr_alloc">>)
    /\ UNCHANGED <<chip, loc>>
    /\ Quiet

\* the labels fail_bfaddr_alloc, fail_dst_alloc and fail_src_alloc, each
\* falling through to the next, then show_test_state and return
copy_fail ==
    /\ k # <<>>
    /\ Head(k) \in {"fail_bfaddr_alloc", "fail_dst_alloc", "fail_src_alloc"}
    /\ LET frees == CASE Head(k) = "fail_bfaddr_alloc" ->
                            (IF loc.bf_mem_p THEN <<B("bf_mem")>> ELSE <<>>)
                            \o (IF loc.bf_addr_p THEN <<B("bf_addr")>> ELSE <<>>)
                            \o <<B("dst_buf"), B("src")>>
                       [] Head(k) = "fail_dst_alloc" -> <<B("src")>>
                       [] OTHER -> <<>>
           h1 == FreeAll(hist, frees)
       IN  hist' = [h1 EXCEPT !.out = show_test_state(@, loc.rc)]
    /\ loc' = [loc EXCEPT !.ret = loc.rc]
    /\ Goto(<<>>)
    /\ UNCHANGED chip
    /\ Quiet

\* BIT(bit) in eight bits; the shift by -1 of the first round leaves
\* nothing in the low byte
BIT8(bit) == IF bit \in 0..7 THEN 2^bit ELSE 0

\* the pattern of one round: walking ones in pass 0, walking zeros in pass 1
Walked(pass, bit) == IF pass = 1 THEN 255 - BIT8(bit) ELSE BIT8(bit)

\* the rounds of the control walk that are left out
SkippedPattern(dout) ==
    dout = 128 \/ dout = 64 \/ dout = 247 \/ HasBit(dout, 8)

\* the registers after a4091_reset(): the chip's defaults, then DCNTL = EA
PinReset(r) == [NoPinRegs EXCEPT !["DCNTL"] = REG_DCNTL_EA, !["SCNTL0"] = 192]

\* the last-written log after the writes ws (register, value) in order
RECURSIVE LastWritten(_, _)
LastWritten(last, ws) ==
    IF ws = <<>> THEN last
    ELSE LastWritten([last EXCEPT ![Head(ws)[1]] = Head(ws)[2]], Tail(ws))

\* entry of the pin test up to the data walk: save, reset, the checks of
\* termination power and of the reset line, low-level mode
test_scsi_pins ==
    /\ At("test_scsi_pins")
    /\ LET saved == chip.r
           l1    == LastWritten(hist.last, <<<<"DCNTL", REG_DCNTL_EA>>,
                                            <<"DCNTL", REG_DCNTL_EA>>>>)
           h1    == [hist EXCEPT !.out = Append(@, "SCSI pin test:"), !.last = l1]
       IN  IF chip.scsi \in {"noterm", "inreset"}
           THEN /\ hist' = h1
                /\ chip' = [chip EXCEPT !.r = PinReset(@)]
                /\ loc' = [loc EXCEPT !.saved = saved, !.rc = 1, !.ret = 1,
                                      !.ran = @ \cup {7}]
                /\ Goto(<<>>)
           ELSE LET ws == <<<<"SCNTL1", 8>>, <<"SCNTL1", 0>>,
                            <<"DCNTL", SetBit(saved["DCNTL"], 8)>>,
                            <<"CTEST4", SetBit(saved["CTEST4"], 16)>>,
                            <<"SCNTL0", 4>>, <<"SCNTL1", 64>>>>
                    l2 == LastWritten(l1, ws)
                IN  /\ hist' = [h1 EXCEPT !.last = l2]
                    /\ chip' = [chip EXCEPT !.r = l2]
                    /\ loc' = [loc EXCEPT !.saved = saved, !.pass = 0, !.bit = -1,
                                  !.rc = IF chip.scsi = "noreset" THEN 1 ELSE 0,
                                  !.ran = @ \cup {7}]
                    /\ Goto(<<"scsi_ctl_walk">>)
    /\ Quiet

\* one round of the walk on SOCL; after the last round the saved registers
\* are written back, the chip is reset and the state line printed
scsi_ctl_walk ==
    /\ At("scsi_ctl_walk")
    /\ IF loc.pass < 2
       THEN LET dout == Walked(loc.pass, loc.bit)
            IN  /\ hist' = IF SkippedPattern(dout) THEN hist
                           ELSE [hist EXCEPT !.socl[loc.pass] = @ \cup {dout}]
                /\ loc' = [loc EXCEPT
                              !.bit = IF loc.bit = 7 THEN -1 ELSE @ + 1,
                              !.pass = IF loc.bit = 7 THEN @ + 1 ELSE @]
                /\ UNCHANGED <<k, chip>>
       ELSE LET ws == <<<<"DCNTL", loc.saved["DCNTL"]>>,
                        <<"SCNTL0", loc.saved["SCNTL0"]>>,
                        <<"SCNTL1", loc.saved["SCNTL1"]>>,
                        <<"CTEST4", loc.saved["CTEST4"]>>,
                        <<"DCNTL", REG_DCNTL_EA>>, <<"DCNTL", REG_DCNTL_EA>>>>
            IN  /\ hist' = [hist EXCEPT !.last = LastWritten(@, ws),
                                        !.out = show_test_state(@, loc.rc)]
                /\ chip' = [chip EXCEPT !.r = PinReset(@)]
                /\ loc' = [loc EXCEPT !.ret = loc.rc]
                /\ Goto(<<>>)
    /\ Quiet

UnitNext ==
    \/ test_device_access \/ get_creg_read \/ unit_card \/ test_register_access \/ reg_walk
    \/ test_dma_fifo \/ fifo_push \/ fifo_pop \/ fifo_fail
    \/ test_dma \/ test_dma_copy_perf
    \/ test_dma_copy \/ copy_reserve \/ copy_forbid \/ copy_pass \/ copy_free
    \/ copy_fail \/ test_scsi_pins \/ scsi_ctl_walk

UnitSpec == UnitInit /\ [][UnitNext]_vars

(***************************************************************************)
(* C22: every test that runs reports its outcome with the state line: it   *)
(* has printed PASS on every path on which it returns 0 and FAIL on every  *)
(* path on which it returns non-zero, early exits on a failed precondition *)
(* (FIFO not empty, all SCSI pins low, bus stuck in reset) included.       *)
(***************************************************************************)
C22_StateLine ==
    (k = <<>> /\ loc.ran # {})
        => /\ hist.out # <<>>
           /\ hist.out[Len(hist.out)] = (IF loc.ret = 0 THEN "PASS" ELSE "FAIL")

(***************************************************************************)
(* C27: autoconfig decoding round trip: for every byte v, when the         *)
(* high-nibble location holds the inverted high nibble of v in its upper   *)
(* four bits and the low-nibble location the inverted low nibble of v in   *)
(* its upper four bits, whatever the lower bits, get_creg returns v, a     *)
(* value in 0..255.                                                        *)
(***************************************************************************)
C27_CregRoundTrip ==
    (k = <<>> /\ 0 \in flags.test_flags)
        => (loc.regval = hist.v /\ loc.regval \in 0..255)

C27_Witness ==
    /\ k = <<>> /\ 0 \in flags.test_flags
    /\ hist.v = 165 /\ loc.regval = 165
    /\ chip.cfg_hi = 85 /\ chip.cfg_lo = 175

(***************************************************************************)
(* C28: walking-bit coverage: over the 256 rotations that start from       *)
(* 0xF0E7C3A5 every bit position is written as 1 and as 0 at least once in *)
(* the value sent to SCRATCH and in the value sent to TEMP, and on every   *)
(* rotation the TEMP value is the SCRATCH value rotated left by one.       *)
(***************************************************************************)
C28_WalkingBits ==
    /\ (At("reg_walk") /\ loc.rot = 0)
          => Hex8(loc.patt) = <<15, 0, 14, 7, 12, 3, 10, 5>>
    /\ (1 \in loc.ran /\ loc.rot > 0)
          => \A i \in Bits32 : (i \in hist.wt) <=> ((i + 31) % 32 \in hist.ws)
    /\ (1 \in loc.ran /\ loc.rot = Rotations)
          => /\ hist.s1 = Bits32 /\ hist.s0 = Bits32
             /\ hist.t1 = Bits32 /\ hist.t0 = Bits32

C28_Witness ==
    /\ k = <<>> /\ 1 \in loc.ran /\ loc.rot = Rotations
    /\ chip.fault = NoFault
    /\ hist.s1 = Bits32 /\ hist.t0 = Bits32
    /\ 31 \in hist.ws /\ 0 \in hist.wt

(***************************************************************************)
(* C29: running -t -2 on a card whose SCRATCH bit 5 always reads 0, all    *)
(* other bits of SCRATCH and all bits of TEMP reading back as written,     *)
(* runs the register-access test and ends with the stuck-low mask equal to *)
(* 0x00000020, printed as "Stuck low: 00000020".  Stated for -t -2 and for *)
(* -t -1, the mask bit that selects test_register_access.                  *)
(***************************************************************************)
C29_StuckLowReported ==
    (/\ k = <<>>
     /\ flags.test_flags \in {{1}, {2}}
     /\ chip.fault = [reg |-> "SCRATCH", bit |-> 5, high |-> FALSE])
        => /\ 1 \in loc.ran
           /\ loc.stuck_low = {5}
           /\ \E n \in 1..Len(hist.out) :
                 hist.out[n] = <<"Stuck low:", <<0, 0, 0, 0, 0, 0, 2, 0>> >>

(***************************************************************************)
(* C30: FIFO round trip: against an ideal DMA FIFO (four lanes, each a     *)
(* 16-deep queue of 9-bit values) the 64 data-plus-parity values pushed    *)
(* after seeding with 19700119 equal, lane by lane and in order, the 64    *)
(* expected values regenerated from the same seed while popping; the test  *)
(* records no mismatch and returns 0.  A FIFO that holds an entry before   *)
(* the test is refused at entry and nothing is pushed.                     *)
(***************************************************************************)
C30_FifoRoundTrip ==
    (k = <<>> /\ 2 \in loc.ran)
        => \/ /\ loc.ret = 15
              /\ chip.fifo[0] = <<0>>
              /\ hist.pushed = EmptyFifo
           \/ /\ hist.pushed = hist.expected
              /\ \A l \in 0..3 :
                    /\ Len(hist.pushed[l]) = NCR_FIFO_SIZE
                    /\ \A n \in 1..NCR_FIFO_SIZE : hist.pushed[l][n] \in 0..511
              /\ chip.fifo = EmptyFifo
              /\ loc.rc = 0 /\ loc.ret = 0
              /\ hist.out = <<"DMA FIFO test:", "PASS">>

C30_Witness ==
    /\ k = <<>> /\ 2 \in loc.ran /\ loc.ret = 0
    /\ Len(hist.expected[3]) = NCR_FIFO_SIZE
    /\ \E l \in 0..3 : \E n \in 1..NCR_FIFO_SIZE : hist.pushed[l][n] > 255
    /\ \E l \in 0..3 : \E n \in 1..NCR_FIFO_SIZE : hist.pushed[l][n] < 256

(***************************************************************************)
(* C25: every buffer a DMA test allocates (source and destination buffers, *)
(* the two protection arrays, every reserved or fallback bit-flip buffer)  *)
(* is freed exactly once before the function returns, on every exit path:  *)
(* allocation failure, DMA timeout, data mismatch; and the Forbid() of the *)
(* DMA copy test is matched by Permit() on every such path.                *)
(***************************************************************************)
C25_BuffersFreed ==
    /\ ~hist.bad
    /\ hist.forbid \in {0, 1}
    /\ (k = <<>> /\ loc.ran \cap {4, 5, 6} # {})
          => (hist.live = {} /\ hist.forbid = 0)

\* a DMA copy run with reserved and fallback buffers that ended on a failure
C25_Witness ==
    /\ k = <<>> /\ 5 \in loc.ran
    /\ hist.dmaStarted /\ loc.ret = 1
    /\ \E p, q \in BfPairs :
          /\ loc.bf_mem[p] = "block" /\ loc.bf_flags[p]
          /\ loc.bf_mem[q] = "block" /\ ~loc.bf_flags[q]
    /\ hist.live = {}

(***************************************************************************)
(* C26: any failed memory request inside the DMA copy test, the fallback   *)
(* allocation for a bit-flip entry included, makes the test release what   *)
(* it acquired and return 1 without starting a DMA and without reading or  *)
(* writing through a null buffer address.                                  *)
(***************************************************************************)
C26_AllocFailureStops ==
    (5 \in loc.ran /\ hist.failed)
        => /\ ~hist.dmaStarted
           /\ ~hist.nullWrite
           /\ (k = <<>>) => (loc.ret = 1 /\ hist.live = {})

(***************************************************************************)
(* C39: after a seize() followed by release() the IRQ chain holds exactly  *)
(* the servers it held before the seize(), for every initial chain, a      *)
(* chain with two or more servers named "NCR SCSI" included.               *)
(***************************************************************************)
C39_ChainRestored ==
    [][ (At("restore_end") /\ k' # k)
          => /\ NcrOnChain' = hist.atSeize
             /\ "local" \notin SeqToSet(chain') ]_vars

(***************************************************************************)
(* C40: seize() called while the card is already owned is a no-op: it      *)
(* installs no second local interrupt server, does not reset the interrupt *)
(* count, removes nothing from the IRQ chain and writes no SIOP register;  *)
(* at most one local interrupt server is on the chain in every reachable   *)
(* state.                                                                  *)
(***************************************************************************)
C40_OwnedSeizeNoOp ==
    /\ [](Cardinality({i \in 1..Len(chain) : chain[i] = "local"}) <= 1)
    /\ [][ (At("takeover") /\ save.card_owned # 0 /\ k' # k)
            => /\ k' = Tail(k)
               /\ chain' = chain
               /\ save'.intcount = save.intcount
               /\ save'.card_owned = save.card_owned
               /\ save'.local_isr = save.local_isr
               /\ save'.driver_isr = save.driver_isr
               /\ regs' = regs /\ chip' = chip
               /\ hist'.written = hist.written ]_vars

\* the card was seized twice without a release in between and is still owned
C40_Witness ==
    /\ hist.nSeize = 2 /\ hist.nRelease = 0
    /\ save.card_owned = 1 /\ ~hist.inSeize
    /\ ~At("takeover")
    /\ "local" \in SeqToSet(chain)

(***************************************************************************)
(* C38: no stale interrupt is mistaken for completion.  Between clearing   *)
(* the captured ISTAT and writing DSP the local server may be entered, but *)
(* what it stores there never shows ABRT or DIP, and none is shown right   *)
(* after the DSP write either: a snapshot that ends execute_script with    *)
(* success was stored by a server entry after the DSP write of that call.  *)
(***************************************************************************)
C38_NoStaleCompletion ==
    /\ [](At("xs_dsp") => ~SnapshotDone)
    /\ [][ (At("xs_dsp") /\ k' # k)
            => /\ ~SnapshotDone'
               /\ regs'["DSP"] = loc.script /\ Head(k') = "xs_loop" ]_vars

\* the server was entered between the clearing and the DSP write and stored
\* a snapshot there (a SCSI-side cause left pending by an earlier script)
C38_Witness ==
    /\ At("xs_dsp") /\ save.ireg_istat # 0
    /\ save.intcount > 0 /\ save.card_owned = 1

(***************************************************************************)
(* C37: every write of the register access layer goes to the shadow        *)
(* address base + 0x800000 + 0x40 + R and every read to base + 0x800000 +  *)
(* R, with R below 0x40: no read at a shadow offset, no write at a base    *)
(* offset.                                                                 *)
(***************************************************************************)
C37_ShadowWrites ==
    \A a \in hist.bus :
        LET off == a[2] - chip.base - 8388608
        IN  /\ a[1] = "w" => off \in 64..127
            /\ a[1] = "r" => off \in 0..63

\* SCRATCH has been written through the shadow and read back at its own
\* offset, on the card at the top of the address range
C37_Witness ==
    /\ chip.base = 2130706432
    /\ <<"w", 2130706432 + 8388608 + 64 + 52>> \in hist.bus
    /\ <<"r", 2130706432 + 8388608 + 52>> \in hist.bus
    /\ loc.rot = Rotations

(***************************************************************************)
(* C36: the device-access test fails on the option-ROM probe only when     *)
(* both timed reads exceed the 2-tick deadline; when the first read is     *)
(* late and the retried read completes in time, the test goes on to the    *)
(* register-window probe.                                                  *)
(***************************************************************************)
C36_RetryAgainstDeadline ==
    (loc.probe # "none")
        => (loc.probe = "rom" <=> (chip.lat[1] > 2 /\ chip.lat[2] > 2))

(***************************************************************************)
(* C34: on every return path of the SCSI pin test the last values written  *)
(* to DCNTL, SCNTL0, SCNTL1 and CTEST4 are the values the registers held   *)
(* when the test was entered.                                              *)
(***************************************************************************)
C34_PinRegsRestored ==
    (k = <<>> /\ 7 \in loc.ran)
        => \A r \in PinRegs : hist.last[r] = loc.saved[r]

(***************************************************************************)
(* C35: the control-pin walk writes to SOCL exactly the walked patterns    *)
(* that are not 0x80, 0x40 or 0xF7 and do not assert the skipped line, and *)
(* both the walking-ones pass and the walking-zeros pass write at least    *)
(* one pattern, so that every control bit that is neither skipped nor      *)
(* masked (bits 0, 1, 2, 4, 5) is written as 1 and as 0.                   *)
(***************************************************************************)
C35_ControlWalkBothPolarities ==
    (k = <<>> /\ 7 \in loc.ran /\ chip.scsi \in {"ok", "noreset"})
        => /\ \A p \in 0..1 :
                 hist.socl[p] = {d \in {IF p = 1 THEN 255 - w ELSE w :
                                           w \in {0, 1, 2, 4, 8, 16, 32, 64, 128}} :
                                   d \notin {128, 64, 247} /\ (d \div 8) % 2 = 0}
           /\ hist.socl[0] # {} /\ hist.socl[1] # {}
           /\ \A b \in {0, 1, 2, 4, 5} :
                 /\ \E d \in hist.socl[0] \cup hist.socl[1] : (d \div 2^b) % 2 = 1
                 /\ \E d \in hist.socl[0] \cup hist.socl[1] : (d \div 2^b) % 2 = 0

(***************************************************************************)
(* C33: every source address handed to the DMA-to-scratch transfer lies in *)
(* the middle third of the 3 x 2048-byte buffer: for the buffer at base,   *)
(* base + 2048 <= s and s + 4 <= base + 4096.                              *)
(***************************************************************************)
C33_SourceInMiddleThird ==
    \A a \in hist.dmaSrc :
        hist.tsrc + 2048 <= a /\ a + 4 <= hist.tsrc + 4096

C31_PassLengths ==
    LET n == Len(hist.lens)
    IN  /\ n <= 32
        /\ \A p \in 1..n :
              /\ hist.lens[p] = (IF p - 1 >= 10 THEN 4096 ELSE 4 * 2^(p - 1))
              /\ hist.lens[p] <= 4096 /\ hist.lens[p] % 4 = 0
        /\ (k # <<>> /\ Head(k) = "copy_pass") => (loc.rc = 0 /\ n = loc.pass)
        /\ (k # <<>> /\ Head(k) = "copy_free" /\ loc.rc # 0) => n = loc.pass + 1
        /\ (k # <<>> /\ Head(k) = "copy_free" /\ loc.rc = 0)
              => /\ n = 32
                 /\ {hist.lens[p] : p \in 1..n} = {4 * 2^e : e \in 0..10}

\* a run that failed in the pass after the first full-length one
C31_Witness ==
    /\ k # <<>> /\ Head(k) = "copy_free" /\ loc.rc # 0
    /\ Len(hist.lens) = 12
    /\ hist.lens[10] = 2048 /\ hist.lens[11] = 4096 /\ hist.lens[12] = 4096

====
